---- MODULE Spec2Model ----
(***************************************************************************)
(* Resumable report job of the Markdown Report route                       *)
(* (app/routes/app.markdown-report.jsx): reportStart / reportContinue      *)
(* requests, the ReportRunState rows they read and write, and the          *)
(* cursor-paginated upstream orders query they scan.                       *)
(*                                                                         *)
(* Every `await` of the route is an interleaving point: a request is a     *)
(* process whose pc is the await it is suspended at.  Two request slots    *)
(* run concurrently (the server enforces no single-flight).  Any upstream  *)
(* call and any database call may fail, which throws to the route's catch. *)
(***************************************************************************)
EXTENDS Integers, Sequences, FiniteSets, TLC

(* ------------------------------ bounds --------------------------------- *)

\* Report runs created in one behaviour (run ids are never reused).
MaxJobs == 1
\* Orders the upstream shop holds; order i was created on day i.
MaxOrders == 3
\* Days the clock may advance after the first day.
MaxTicks == 3
\* Calls (upstream or database) that fail in one behaviour.
MaxFailures == 1
\* Page size of the orders query (`orders(first: 25 ...)`), scaled down.
OrdersFirst == 2
\* Purchase orders the third-party (Stocky) list holds at most.
MaxPOs == 3
\* Page size of the purchase-order list (`limit = 100`), scaled down.
StockyLimit == 2
\* Calls (third-party or database) of the sync requests that fail in one
\* behaviour.
MaxSyncFailures == 1
\* Page size of the variants query (`productVariants(first: 100 ...)`), scaled
\* down.
VariantsFirst == 3
\* The cap of the variant scan (`const MAX_VARIANTS = 5000`), scaled down with
\* the page size.
MAX_VARIANTS == 6
\* Active variants the shop holds at most.
MaxCatalog == 8
\* The restocking report: pages the upstream's orders connection holds at
\* most, the page size of its query (`first: 50`) and its cap on collected
\* orders (`allOrders.length > 500`), the latter two scaled down.
MaxRestockPages == 23
RestockFirst == 2
RestockOrderLimit == 30
\* The iteration-capped copy of the route: the page size of its orders query
\* (`orders(first: 50 ...)`) and its cap (`const MAX_LOOPS = 4`), scaled down.
OrdersFirstCapped == 1
MAX_LOOPS == 2

(* ------------------------- program constants --------------------------- *)

\* cleanupOldRuns: 2 * 24 * 60 * 60 * 1000 ms, in days.
RetentionDays == 2
\* `cursor: null`
NoCursor == 0
\* `createdAt || null`
NoDate == 0
\* A `received_at` that `new Date(value)` cannot parse (safeDate gives null).
BadDate == 0 - 1
\* fetchStockyPurchaseOrdersPage: `const MAX_RETRIES = 6`
MAX_RETRIES == 6
\* The HTTP status of a response whose body is a plain object that the action
\* returns (`return { error: ... }`, `return { inputs, report }`): no return
\* of the action sets a status.
StatusOfPlainReturn == 200
\* The restocking report: `if (pageCount > 20) break`
RestockPageLimit == 20

Shops == {"s1"}
Reqs == {1, 2}
Variants == {"v1", "v2", "v3"}
\* Form values a client may post for periodQtySoldLTE and lookBackDays.
ThresholdInputs == {0 - 1, 0}
\* The periodQtySoldLTE the page's poller posts with a reportContinue: the
\* `inputs` of the previous response, which are those of its reportStart.
PollerThresholdInputs == {t \in ThresholdInputs : t >= 0}
\* Form values any client may post for periodQtySoldLTE with a reportContinue
\* (an absent field is read as 0).
ContinueThresholdInputs == {0, 2}
LookBackInputs == {0, 1, MaxOrders}
FirstDay == MaxOrders
RunIds == 1..MaxJobs
\* A run id that no row ever has.
UnknownId == MaxJobs + 1

(* --------------------------- upstream orders --------------------------- *)

\* The line items of upstream order i: [variant, quantity]; variant "" is a
\* line item whose variant is null (a deleted product).
LineItemsOf(i) ==
    CASE i % 3 = 1 -> << [variant |-> "v1", quantity |-> 1] >>
      [] i % 3 = 2 -> << [variant |-> "v2", quantity |-> 2],
                         [variant |-> "", quantity |-> 1] >>
      [] OTHER     -> << [variant |-> "v1", quantity |-> 2],
                         [variant |-> "v3", quantity |-> 1] >>

\* One edge of the orders connection: its cursor, and the node's fields.
OrderEdge(i) == [cursor |-> i, createdAt |-> i, lineItems |-> LineItemsOf(i)]

\* Indices of the orders matching `created_at:>=sinceISO` that follow `after`,
\* in CREATED_AT order.
Remaining(sinceISO, after) ==
    {i \in 1..MaxOrders : OrderEdge(i).createdAt >= sinceISO /\ i > after}

RECURSIVE TakeEdges(_, _)
TakeEdges(S, n) ==
    IF n = 0 \/ S = {} THEN << >>
    ELSE LET i == CHOOSE x \in S : \A y \in S : x <= y
         IN << OrderEdge(i) >> \o TakeEdges(S \ {i}, n - 1)

\* The upstream's answer to one orders query of page size `first`.
OrdersQueryOf(first, sinceISO, after) ==
    LET S == Remaining(sinceISO, after)
    IN [edges |-> TakeEdges(S, first),
        pageInfo |-> [hasNextPage |-> Cardinality(S) > first]]

\* The upstream's answer to one orders query of the route.
OrdersQuery(sinceISO, after) == OrdersQueryOf(OrdersFirst, sinceISO, after)

(* -------------------------- upstream variants -------------------------- *)

\* The ids of the shop's active variants, in the order of the variants
\* connection; the orders of the model sell the first three.
VariantIds == << "v1", "v2", "v3", "v4", "v5", "v6", "v7", "v8", "v9", "v10" >>

\* The upstream's answer to one productVariants query of a shop with `catalog`
\* active variants: the edges (each one's cursor is its index) after `after`.
VariantsQuery(catalog, after) ==
    LET left == IF catalog > after THEN catalog - after ELSE 0
    IN [edges |-> [k \in 1..(IF left < VariantsFirst THEN left ELSE VariantsFirst)
                      |-> after + k],
        pageInfo |-> [hasNextPage |-> left > VariantsFirst]]

(* ----------------------- third-party purchase orders ------------------- *)

Skus == {"a", "b"}

\* The purchase_items of purchase order i: [sku, received_at]; sku "" is a
\* blank sku, received_at NoDate is null.
PurchaseItemsOf(i) ==
    CASE i % 4 = 1 -> << [sku |-> "a", received_at |-> 2] >>
      [] i % 4 = 2 -> << [sku |-> "a", received_at |-> 1],
                         [sku |-> "", received_at |-> 3],
                         [sku |-> "b", received_at |-> NoDate] >>
      [] i % 4 = 3 -> << [sku |-> "b", received_at |-> BadDate],
                         [sku |-> "a", received_at |-> 3] >>
      [] OTHER     -> << [sku |-> "b", received_at |-> 2] >>

\* `purchase_orders` of GET purchase_orders.json?limit=&offset= (status 200):
\* the indices of the purchase orders of the page.
PurchaseOrdersPage(count, limit, offset) ==
    [k \in 1..(IF offset >= count THEN 0
               ELSE IF count - offset < limit THEN count - offset ELSE limit)
        |-> offset + k]

\* The `retry-after` header of a 429 response, as `Number(header)` reads it:
\* a finite number of seconds, or NaN (no header, or text that is no number).
NoRetryAfter == [finite |-> FALSE, seconds |-> 0]
RetryAfterSeconds == {0, 2, 40}
RetryAfterInputs ==
    {NoRetryAfter} \cup {[finite |-> TRUE, seconds |-> n] : n \in RetryAfterSeconds}

(* ------------------------------ helpers -------------------------------- *)

Min(a, b) == IF a < b THEN a ELSE b
Max(a, b) == IF a > b THEN a ELSE b

RECURSIVE Pow2(_)
\* `Math.pow(2, attempt)`
Pow2(n) == IF n = 0 THEN 1 ELSE 2 * Pow2(n - 1)

\* `Number.isFinite(retryAfterSeconds) ? Math.max(1000, retryAfterSeconds *
\* 1000) : 2000`
BaseWaitMs(retryAfter) ==
    IF retryAfter.finite THEN Max(1000, retryAfter.seconds * 1000) ELSE 2000

\* Mutant: the wait grows by the base wait with every attempt.
WaitMs_Linear(retryAfter, attempt) ==
    Min(30000, BaseWaitMs(retryAfter) * (attempt + 1))

\* `Math.min(30000, baseWaitMs * Math.pow(2, attempt))`
WaitMs(retryAfter, attempt) ==
    Min(30000, BaseWaitMs(retryAfter) * Pow2(attempt))

EmptySales == [v \in {} |-> 0]

\* Mutant: the item's quantity replaces the variant's quantity.
MergeLineItem_Overwrite(sales, createdAt, li) ==
    IF li.variant = "" THEN sales
    ELSE LET cur == IF li.variant \in DOMAIN sales
                    THEN sales[li.variant]
                    ELSE [qtySold |-> 0,
                          firstSoldDate |-> createdAt,
                          lastSoldDate |-> createdAt]
             new == [qtySold |-> li.quantity,
                     firstSoldDate |-> IF createdAt < cur.firstSoldDate
                                       THEN createdAt ELSE cur.firstSoldDate,
                     lastSoldDate |-> IF createdAt > cur.lastSoldDate
                                      THEN createdAt ELSE cur.lastSoldDate]
         IN [k \in DOMAIN sales \cup {li.variant} |->
                 IF k = li.variant THEN new ELSE sales[k]]

\* The body of mergeSalesMap's inner loop for one line item.
MergeLineItem(sales, createdAt, li) ==
    LET variantId == li.variant
        qty == li.quantity
    IN IF variantId = "" THEN sales
       ELSE LET cur == IF variantId \in DOMAIN sales
                       THEN sales[variantId]
                       ELSE [qtySold |-> 0,
                             firstSoldDate |-> createdAt,
                             lastSoldDate |-> createdAt]
                first == IF createdAt # NoDate
                            /\ (cur.firstSoldDate = NoDate
                                \/ createdAt < cur.firstSoldDate)
                         THEN createdAt ELSE cur.firstSoldDate
                last == IF createdAt # NoDate
                           /\ (cur.lastSoldDate = NoDate
                               \/ createdAt > cur.lastSoldDate)
                        THEN createdAt ELSE cur.lastSoldDate
                new == [qtySold |-> cur.qtySold + qty,
                        firstSoldDate |-> first,
                        lastSoldDate |-> last]
            IN [k \in DOMAIN sales \cup {variantId} |->
                    IF k = variantId THEN new ELSE sales[k]]

RECURSIVE MergeLineItems(_, _, _)
MergeLineItems(sales, createdAt, lineItems) ==
    IF lineItems = << >> THEN sales
    ELSE MergeLineItems(MergeLineItem(sales, createdAt, Head(lineItems)),
                        createdAt, Tail(lineItems))

RECURSIVE mergeSalesMap(_, _)
mergeSalesMap(existingJson, ordersEdges) ==
    IF ordersEdges = << >> THEN existingJson
    ELSE LET edge == Head(ordersEdges)
         IN mergeSalesMap(
                MergeLineItems(existingJson, edge.createdAt, edge.lineItems),
                Tail(ordersEdges))

\* Mutant: the cursor of the first record of the page is returned.
fetchOrdersChunk_FirstCursor(sinceISO, afterCursor) ==
    LET orders == OrdersQuery(sinceISO, afterCursor)
        edges == orders.edges
        hasNextPage == orders.pageInfo.hasNextPage
        nextCursor == IF hasNextPage
                      THEN (IF edges = << >> THEN NoCursor
                            ELSE edges[1].cursor)
                      ELSE NoCursor
    IN [edges |-> edges, hasNextPage |-> hasNextPage, nextCursor |-> nextCursor]

\* fetchOrdersChunk's result for a successful query.
fetchOrdersChunk(sinceISO, afterCursor) ==
    LET orders == OrdersQuery(sinceISO, afterCursor)
        edges == orders.edges
        hasNextPage == orders.pageInfo.hasNextPage
        nextCursor == IF hasNextPage
                      THEN (IF edges = << >> THEN NoCursor
                            ELSE edges[Len(edges)].cursor)
                      ELSE NoCursor
    IN [edges |-> edges, hasNextPage |-> hasNextPage, nextCursor |-> nextCursor]

\* fetchOrdersChunk of the iteration-capped copy, for a successful query.
fetchOrdersChunkCapped(sinceISO, afterCursor) ==
    LET orders == OrdersQueryOf(OrdersFirstCapped, sinceISO, afterCursor)
        edges == orders.edges
        hasNextPage == orders.pageInfo.hasNextPage
        nextCursor == IF hasNextPage
                      THEN (IF edges = << >> THEN NoCursor
                            ELSE edges[Len(edges)].cursor)
                      ELSE NoCursor
    IN [edges |-> edges, hasNextPage |-> hasNextPage, nextCursor |-> nextCursor]

\* Mutant: the scan stops only when it holds more than the cap.
CapReached_Beyond(length) == length > MAX_VARIANTS

\* `all.length >= MAX_VARIANTS`
CapReached(length) == length >= MAX_VARIANTS

RECURSIVE ScanVariantPages(_, _, _, _)
\* The `while (true)` loop of fetchAllActiveVariants from one query on: `all`
\* is all.length, `queries` the queries issued before.  The edges of a page
\* are pushed one by one, and the first push that reaches the cap returns.
ScanVariantPages(catalog, all, after, queries) ==
    LET pv == VariantsQuery(catalog, after)
        n == Len(pv.edges)
        hits == {j \in 1..n : CapReached(all + j)}
    IN IF hits # {}
       THEN [count |-> all + (CHOOSE j \in hits : \A i \in hits : j <= i),
             truncated |-> TRUE, queries |-> queries + 1]
       ELSE IF ~pv.pageInfo.hasNextPage \/ n = 0
       THEN [count |-> all + n, truncated |-> FALSE, queries |-> queries + 1]
       ELSE ScanVariantPages(catalog, all + n, pv.edges[n], queries + 1)

\* fetchAllActiveVariants' result for queries that succeed: the variants are
\* the first `count` ones of the connection.
fetchAllActiveVariants(catalog) == ScanVariantPages(catalog, 0, NoCursor, 0)

(* ------------------------------- state --------------------------------- *)

VARIABLES
    syncState,       \* StockySyncState rows: shop -> row (absent until upserted)
    receipts,        \* StockySkuReceipt rows: <<shop, sku>> -> row
    sreq,            \* sync request slot -> the suspended request's locals
    syncResp,        \* the JSON body a sync request just returned
    syncFailures,    \* history: calls of sync requests that have failed so far
    poCount,         \* purchase orders the third-party list holds
    partialFailed,   \* history: a full-sync chunk threw after a receipt write
                     \*   for a page whose offset it had not persisted yet
    now,             \* Date.now(), in days
    nextId,          \* the next ReportRunState id Prisma generates
    jobs,            \* ReportRunState rows: id -> row (deleted ids are absent)
    req,             \* request slot -> the suspended request's locals
    lastResp,        \* the JSON body the action just returned, until received
    overlapped,      \* history: run id -> two requests for the run were in
                     \*   flight at the same time
    markDoneFailed,  \* history: run id -> the `done` update of the run threw
    failures,        \* history: calls that have failed so far
    restock,         \* the locals of the restocking report's request
    reportFetcher,   \* the page's fetcher of the report requests
    fullSyncFetcher  \* the page's fetcher of the full-sync requests

syncVars == << syncState, receipts, sreq, syncResp, syncFailures, poCount,
              partialFailed >>

reportVars == << now, nextId, jobs, req, lastResp, overlapped, markDoneFailed,
                 failures >>

pageVars == << restock, reportFetcher, fullSyncFetcher >>

vars == << syncVars, reportVars, pageVars >>

\* The restocking report's request (app/routes/app._index.jsx): `pages` is
\* the number of pages the upstream's orders connection holds, `cursor` the
\* number of them that the request has passed, `allOrders` is
\* allOrders.length, `fetches` counts the orders queries.
IdleRestock ==
    [pc |-> "idle", pages |-> 0, cursor |-> 0, hasNextPage |-> FALSE,
     pageCount |-> 0, allOrders |-> 0, fetches |-> 0, error |-> ""]

\* A fetcher of the page (useFetcher): its state, the body it holds as
\* `data` (kind "none" is undefined), whether a timeout of the poll effect is
\* pending, the request slot of its latest submission, and the slots of the
\* submissions it has aborted (a new submission aborts the one in flight;
\* its response is dropped).
IdleFetcher ==
    [state |-> "idle",
     data |-> [kind |-> "none", runId |-> 0, done |-> FALSE],
     timer |-> FALSE, current |-> 0, aborted |-> {}]

IdleReq ==
    [pc |-> "idle", intent |-> "", shop |-> "", runId |-> 0,
     periodQtySoldLTE |-> 0, lookBackDays |-> 0, sinceISO |-> 0,
     startCursor |-> NoCursor, cursor |-> NoCursor, processedOrders |-> 0,
     salesByVariant |-> EmptySales, hasNextPage |-> FALSE, edgesLen |-> 0,
     fetches |-> 0, sawDone |-> FALSE, loops |-> 0]

NoResp ==
    [kind |-> "none", intent |-> "", runId |-> 0, done |-> FALSE,
     processedOrders |-> 0, error |-> "", fetches |-> 0,
     variantQueries |-> 0, sawDone |-> FALSE, rows |-> {},
     truncated |-> FALSE, variantsCount |-> 0, catalog |-> 0, status |-> 0]

\* `{ error: e.message }` of the action's catch, and its own error returns.
ErrorResp(q, message) ==
    [NoResp EXCEPT !.kind = "error", !.intent = q.intent, !.runId = q.runId,
                   !.error = message, !.fetches = q.fetches,
                   !.sawDone = q.sawDone, !.status = StatusOfPlainReturn]

\* `{ inputs, report: { runId, done, processedOrders, message } }`.
ReportResp(q, done, processedOrders, variantQueries) ==
    [NoResp EXCEPT !.kind = "report", !.intent = q.intent, !.runId = q.runId,
                   !.done = done, !.processedOrders = processedOrders,
                   !.fetches = q.fetches, !.variantQueries = variantQueries,
                   !.sawDone = q.sawDone, !.status = StatusOfPlainReturn]

\* The request returns: its slot is free again, and the body is on its way.
Respond(r, resp) ==
    /\ req' = [req EXCEPT ![r] = IdleReq]
    /\ lastResp' = resp

\* No response is in flight (a response is received before the next step of
\* any request is looked at; it changes nothing on the server).
Quiet == lastResp.kind = "none"

\* A chunk driver (continueReportRun) that has read its row and not returned.
InChunk(q) == q.pc \in {"fetch", "advance", "markDone", "latest"}

\* A request that was received and has not returned.
InFlight(q) == q.pc # "idle"

\* Slots are taken in order, so that equal interleavings are explored once.
SlotFree(r) ==
    /\ req[r].pc = "idle"
    /\ \A r2 \in Reqs : r2 < r => req[r2].pc # "idle"

\* The locals of a sync request (runFullSyncChunk, stockyQuickSync and the
\* upsertReceiptForSku call it is in).  `items` are the purchase items of the
\* fetched page that are still to be upserted; `existing` is what findUnique
\* returned for the first of them; `pageWrites` counts the receipt writes
\* (create or update) the request has made for the items of that page.
\* `attempt` is the loop index of the fetchStockyPurchaseOrdersPage call the
\* request is in, `retryAfter` and `waitMs` the header of its last 429
\* response and the sleep that followed it.
IdleSync ==
    [pc |-> "idle", intent |-> "", startFresh |-> FALSE, shop |-> "",
     offset |-> 0, firstOffset |-> 0 - 1, ordersLen |-> 0, items |-> << >>,
     existing |-> [found |-> FALSE, firstReceivedAt |-> NoDate,
                   lastReceivedAt |-> NoDate],
     fetches |-> 0, scannedOrders |-> 0, itemsProcessed |-> 0,
     pageWrites |-> 0, attempt |-> 0, retryAfter |-> NoRetryAfter,
     waitMs |-> 0]

NoSyncResp ==
    [kind |-> "none", intent |-> "", done |-> FALSE, offset |-> 0,
     scannedOrders |-> 0, itemsProcessed |-> 0, fetches |-> 0, error |-> "",
     pageWrites |-> 0, attempt |-> 0, status |-> 0, startFresh |-> FALSE]

\* `{ error: e.message }` of the action's catch, and its own error returns.
SyncErrorResp(q, message) ==
    [NoSyncResp EXCEPT !.kind = "error", !.intent = q.intent,
                       !.fetches = q.fetches, !.error = message,
                       !.attempt = q.attempt,
                       !.status = StatusOfPlainReturn]

\* `{ inputs, fullSync: chunk }` and the quick sync's `{ inputs, message }`.
SyncResultResp(q, done, offset) ==
    [NoSyncResp EXCEPT !.kind = "result", !.intent = q.intent, !.done = done,
                       !.offset = offset, !.scannedOrders = q.scannedOrders,
                       !.itemsProcessed = q.itemsProcessed,
                       !.fetches = q.fetches, !.pageWrites = q.pageWrites,
                       !.status = StatusOfPlainReturn,
                       !.startFresh = q.startFresh]

\* The sync request returns.
SyncRespond(r, resp) ==
    /\ sreq' = [sreq EXCEPT ![r] = IdleSync]
    /\ syncResp' = resp

\* No response of a sync request is in flight.
SyncQuiet == syncResp.kind = "none"

SyncSlotFree(r) ==
    /\ sreq[r].pc = "idle"
    /\ \A r2 \in Reqs : r2 < r => sreq[r2].pc # "idle"

\* No report run exists and no report request is in flight.
InitReport ==
    /\ now = FirstDay
    /\ nextId = 1
    /\ jobs = [j \in {} |-> 0]
    /\ req = [r \in Reqs |-> IdleReq]
    /\ lastResp = NoResp
    /\ overlapped = [j \in RunIds |-> FALSE]
    /\ markDoneFailed = [j \in RunIds |-> FALSE]
    /\ failures = 0

\* No request of a page is in flight and its fetchers hold no data.
InitPage ==
    /\ restock = IdleRestock
    /\ reportFetcher = IdleFetcher
    /\ fullSyncFetcher = IdleFetcher

\* The sync tables are empty and no sync request is in flight.
InitSyncTables ==
    /\ syncState = [x \in {} |-> 0]
    /\ receipts = [x \in {} |-> 0]
    /\ sreq = [r \in Reqs |-> IdleSync]
    /\ syncResp = NoSyncResp
    /\ syncFailures = 0
    /\ partialFailed = FALSE

Init ==
    /\ InitReport
    /\ InitSyncTables
    /\ InitPage
    /\ poCount = 0

(* ------------------------------ actions -------------------------------- *)

\* A day passes.  Requests last seconds (MAX_MS is 12 s), so days pass between
\* requests, not within one.
Tick ==
    /\ Quiet
    /\ \A r \in Reqs : req[r].pc = "idle"
    /\ now < FirstDay + MaxTicks
    /\ now' = now + 1
    /\ UNCHANGED << pageVars, syncVars, nextId, jobs, req, lastResp, overlapped, markDoneFailed, failures >>

\* action, intent reportStart: input validation, then startReportRun.
ReportStartArrives(r, shopDomain, periodQtySoldLTE, lookBackDays) ==
    /\ Quiet
    /\ SlotFree(r)
    /\ nextId + Cardinality({r2 \in Reqs : req[r2].pc \in {"cleanup", "create"}})
          <= MaxJobs
    /\ LET q == [IdleReq EXCEPT !.intent = "reportStart", !.shop = shopDomain,
                                !.periodQtySoldLTE = periodQtySoldLTE,
                                !.lookBackDays = lookBackDays]
       IN IF periodQtySoldLTE < 0 \/ lookBackDays <= 0
          THEN Respond(r, ErrorResp(q, "Invalid input values."))
          ELSE /\ req' = [req EXCEPT ![r] = [q EXCEPT !.pc = "cleanup"]]
               /\ UNCHANGED lastResp
    /\ UNCHANGED << syncVars, now, nextId, jobs, overlapped, markDoneFailed, failures >>

\* A reportStart of any client.
SubmitReportStart(r, shopDomain, periodQtySoldLTE, lookBackDays) ==
    /\ ReportStartArrives(r, shopDomain, periodQtySoldLTE, lookBackDays)
    /\ UNCHANGED pageVars

\* Mutant: the cleanup is not scoped to the shop.
Expired_AnyShop(run, shopDomain, cutoff) == run.createdAt < cutoff

\* `where: { shop: shopDomain, createdAt: { lt: cutoff } }`
Expired(run, shopDomain, cutoff) ==
    run.shop = shopDomain /\ run.createdAt < cutoff

\* cleanupOldRuns: deleteMany where shop and createdAt < cutoff.
cleanupOldRuns(r) ==
    /\ Quiet
    /\ req[r].pc = "cleanup"
    /\ LET cutoff == now - RetentionDays
           keep == {j \in DOMAIN jobs : ~Expired(jobs[j], req[r].shop, cutoff)}
       IN jobs' = [j \in keep |-> jobs[j]]
    /\ req' = [req EXCEPT ![r].pc = "create"]
    /\ UNCHANGED << pageVars, syncVars, now, nextId, lastResp, overlapped, markDoneFailed, failures >>

\* The row startReportRun creates.
NewRun(q) ==
    [shop |-> q.shop, createdAt |-> now,
     periodQtySoldLTE |-> q.periodQtySoldLTE, lookBackDays |-> q.lookBackDays,
     sinceISO |-> now - q.lookBackDays, cursor |-> NoCursor, done |-> FALSE,
     processedOrders |-> 0, salesByVariant |-> EmptySales,
     status |-> "running", error |-> ""]

\* startReportRun: prisma.reportRunState.create, then continueReportRun(run.id).
startReportRun(r) ==
    /\ Quiet
    /\ req[r].pc = "create"
    /\ jobs' = [j \in DOMAIN jobs \cup {nextId} |->
                  IF j = nextId THEN NewRun(req[r]) ELSE jobs[j]]
    /\ nextId' = nextId + 1
    /\ req' = [req EXCEPT ![r].pc = "read", ![r].runId = nextId]
    /\ UNCHANGED << pageVars, syncVars, now, lastResp, overlapped, markDoneFailed, failures >>

\* action, intent reportContinue: the form's runId, then continueReportRun.
\* The client posts a run id that a returned reportStart created, or one that
\* names no row.
ReportContinueArrives(r, shopDomain, runId, periodQtySoldLTE) ==
    /\ Quiet
    /\ SlotFree(r)
    /\ \/ runId = UnknownId
       \/ /\ runId < nextId
          /\ \A r2 \in Reqs :
                ~(req[r2].intent = "reportStart" /\ req[r2].runId = runId)
    /\ req' = [req EXCEPT ![r] =
                 [IdleReq EXCEPT !.pc = "read", !.intent = "reportContinue",
                                 !.shop = shopDomain, !.runId = runId,
                                 !.periodQtySoldLTE = periodQtySoldLTE]]
    /\ overlapped' = [j \in RunIds |->
           overlapped[j] \/ (j = runId /\ \E r2 \in Reqs \ {r} :
                                 InFlight(req[r2]) /\ req[r2].runId = j)]
    /\ UNCHANGED << syncVars, now, nextId, jobs, lastResp, markDoneFailed, failures >>

\* A reportContinue of any client.
SubmitReportContinue(r, shopDomain, runId, periodQtySoldLTE) ==
    /\ ReportContinueArrives(r, shopDomain, runId, periodQtySoldLTE)
    /\ UNCHANGED pageVars

\* What the action does with continueReportRun's result `progressed`:
\* reportStart and a reportContinue that is not done answer at once; a done
\* reportContinue goes on to assemble the rows.
AfterContinue(r, done, processedOrders, salesByVariant) ==
    IF req[r].intent = "reportContinue" /\ done
    THEN /\ req' = [req EXCEPT ![r].pc = "variants",
                               ![r].processedOrders = processedOrders,
                               ![r].salesByVariant = salesByVariant]
         /\ UNCHANGED lastResp
    ELSE Respond(r, ReportResp(req[r], done, processedOrders, 0))

\* Mutant: the early exit of a complete run is missing.
IsComplete_Missing(run) == FALSE

\* `run.done || run.status === "done"`
IsComplete(run) == run.done \/ run.status = "done"

\* Mutant: a chunk starts at the first page, not at the persisted cursor.
ResumeCursor_Restart(run) == NoCursor

\* `let cursor = run.cursor`
ResumeCursor(run) == run.cursor

\* Mutant: a run of any shop is the requester's.
OwnedBy_Anyone(run, shopDomain) == TRUE

\* `run.shop !== shopDomain`, negated
OwnedBy(run, shopDomain) == run.shop = shopDomain

\* Mutant: the status of a run is not looked at (a failed run is scanned on).
IsFailed_Ignored(run) == FALSE

\* `run.status === "error"`
IsFailed(run) == run.status = "error"

\* `run.error || "Report run previously failed."`
FailureMessage(run) ==
    IF run.error # "" THEN run.error ELSE "Report run previously failed."

\* continueReportRun up to its loop: findUnique and the three early exits.
\* The action then returns the report of a run that is complete, or goes on to
\* assemble the rows when the intent is reportContinue.
ReadRun(r) ==
    /\ Quiet
    /\ req[r].pc = "read"
    /\ LET q == req[r]
           id == q.runId
       IN IF id \notin DOMAIN jobs \/ ~OwnedBy(jobs[id], q.shop)
          THEN Respond(r, ErrorResp(q, "Report run not found."))
          ELSE LET run == jobs[id]
               IN IF IsComplete(run)
                  THEN IF q.intent = "reportContinue" /\ run.done
                       THEN /\ req' = [req EXCEPT ![r].pc = "variants",
                                         ![r].sawDone = TRUE,
                                         ![r].processedOrders = run.processedOrders,
                                         ![r].salesByVariant = run.salesByVariant]
                            /\ UNCHANGED lastResp
                       ELSE Respond(r, ReportResp([q EXCEPT !.sawDone = TRUE],
                                        run.done, run.processedOrders, 0))
                  ELSE IF IsFailed(run)
                  THEN Respond(r, ErrorResp(q, FailureMessage(run)))
                  ELSE /\ req' = [req EXCEPT ![r].pc = "fetch",
                                    ![r].sinceISO = run.sinceISO,
                                    ![r].startCursor = ResumeCursor(run),
                                    ![r].cursor = ResumeCursor(run),
                                    ![r].processedOrders = run.processedOrders,
                                    ![r].salesByVariant = run.salesByVariant]
                       /\ UNCHANGED lastResp
    /\ UNCHANGED << pageVars, syncVars, now, nextId, jobs, overlapped, markDoneFailed, failures >>

\* Mutant: a page counts as one record.
CountAfterPage_PerPage(processedOrders, edges) == processedOrders + 1

\* `processedOrders += chunk.edges.length`
CountAfterPage(processedOrders, edges) == processedOrders + Len(edges)

\* One loop iteration up to its update: fetchOrdersChunk succeeds, and the page
\* is merged into the locals.
FetchOrders(r) ==
    /\ Quiet
    /\ req[r].pc = "fetch"
    /\ \E chunk \in {fetchOrdersChunk(req[r].sinceISO, req[r].cursor)} :
       LET q == req[r]
       IN req' = [req EXCEPT ![r].pc = "advance",
                     ![r].salesByVariant = mergeSalesMap(q.salesByVariant, chunk.edges),
                     ![r].processedOrders = CountAfterPage(q.processedOrders, chunk.edges),
                     ![r].cursor = chunk.nextCursor,
                     ![r].hasNextPage = chunk.hasNextPage,
                     ![r].edgesLen = Len(chunk.edges),
                     ![r].fetches = q.fetches + 1]
    /\ UNCHANGED << pageVars, syncVars, now, nextId, jobs, lastResp, overlapped, markDoneFailed, failures >>

\* Mutant: a failed fetch marks the run as failed before it throws.
FetchOrdersFail_MarksError(r) ==
    /\ Quiet
    /\ req[r].pc = "fetch"
    /\ Respond(r, ErrorResp([req[r] EXCEPT !.fetches = @ + 1],
                            "Could not read orders from GraphQL response."))
    /\ jobs' = [j \in DOMAIN jobs |->
                  IF j = req[r].runId
                  THEN [jobs[j] EXCEPT !.status = "error",
                           !.error = "Could not read orders from GraphQL response."]
                  ELSE jobs[j]]
    /\ UNCHANGED << pageVars, syncVars, now, nextId, overlapped, markDoneFailed >>
    /\ failures < MaxFailures
    /\ failures' = failures + 1

\* fetchOrdersChunk throws (GraphQL errors, no `orders` in the response, a
\* transport failure): the error reaches the action's catch.
FetchOrdersFail(r) ==
    /\ Quiet
    /\ req[r].pc = "fetch"
    /\ Respond(r, ErrorResp([req[r] EXCEPT !.fetches = @ + 1],
                            "Could not read orders from GraphQL response."))
    /\ UNCHANGED << pageVars, syncVars, now, nextId, jobs, overlapped, markDoneFailed >>
    /\ failures < MaxFailures
    /\ failures' = failures + 1

\* The data of the loop's first update.
AdvanceData(run, q) ==
    [run EXCEPT !.cursor = q.cursor, !.processedOrders = q.processedOrders,
                !.salesByVariant = q.salesByVariant, !.status = "running",
                !.error = ""]

\* The loop's first update, then `if (!chunk.hasNextPage)`, else the sleep and
\* the loop condition `Date.now() - startedAt < MAX_MS`, which either holds or
\* not.  An update of a row that was deleted throws.
Advance(r) ==
    /\ Quiet
    /\ req[r].pc = "advance"
    /\ LET q == req[r]
           id == q.runId
       IN IF id \notin DOMAIN jobs
          THEN /\ Respond(r, ErrorResp(q, "Record to update not found."))
               /\ UNCHANGED jobs
          ELSE /\ jobs' = [jobs EXCEPT ![id] = AdvanceData(jobs[id], q)]
               /\ \/ /\ ~q.hasNextPage
                     /\ req' = [req EXCEPT ![r].pc = "markDone"]
                  \/ /\ q.hasNextPage
                     /\ req' = [req EXCEPT ![r].pc = "fetch"]
                  \/ /\ q.hasNextPage
                     /\ req' = [req EXCEPT ![r].pc = "latest"]
               /\ UNCHANGED lastResp
    /\ UNCHANGED << pageVars, syncVars, now, nextId, overlapped, markDoneFailed, failures >>

\* One loop iteration of the iteration-capped copy up to its update:
\* `loops += 1`, fetchOrdersChunk succeeds, and the page is merged.
FetchOrdersCapped(r) ==
    /\ Quiet
    /\ req[r].pc = "fetch"
    /\ LET q == req[r]
           chunk == fetchOrdersChunkCapped(q.sinceISO, q.cursor)
       IN req' = [req EXCEPT ![r].pc = "advance",
                     ![r].loops = q.loops + 1,
                     ![r].salesByVariant = mergeSalesMap(q.salesByVariant, chunk.edges),
                     ![r].processedOrders = CountAfterPage(q.processedOrders, chunk.edges),
                     ![r].cursor = chunk.nextCursor,
                     ![r].hasNextPage = chunk.hasNextPage,
                     ![r].edgesLen = Len(chunk.edges),
                     ![r].fetches = q.fetches + 1]
    /\ UNCHANGED << pageVars, syncVars, now, nextId, jobs, lastResp, overlapped, markDoneFailed, failures >>

\* Mutant: the loop count is not looked at.
LoopsLeft_Unbounded(loops) == TRUE

\* `loops < MAX_LOOPS`
LoopsLeft(loops) == loops < MAX_LOOPS

\* The update of the iteration-capped copy, then `if (!chunk.hasNextPage)`,
\* else the sleep and the loop condition
\* `Date.now() - startedAt < MAX_MS && loops < MAX_LOOPS`, whose first part
\* either holds or not.
AdvanceCapped(r) ==
    /\ Quiet
    /\ req[r].pc = "advance"
    /\ LET q == req[r]
           id == q.runId
       IN IF id \notin DOMAIN jobs
          THEN /\ Respond(r, ErrorResp(q, "Record to update not found."))
               /\ UNCHANGED jobs
          ELSE /\ jobs' = [jobs EXCEPT ![id] = AdvanceData(jobs[id], q)]
               /\ \/ /\ ~q.hasNextPage
                     /\ req' = [req EXCEPT ![r].pc = "markDone"]
                  \/ /\ q.hasNextPage
                     /\ LoopsLeft(q.loops)
                     /\ req' = [req EXCEPT ![r].pc = "fetch"]
                  \/ /\ q.hasNextPage
                     /\ req' = [req EXCEPT ![r].pc = "latest"]
               /\ UNCHANGED lastResp
    /\ UNCHANGED << pageVars, syncVars, now, nextId, overlapped, markDoneFailed, failures >>

\* The data of the loop's second update.
DoneData(run) == [run EXCEPT !.done = TRUE, !.status = "done"]

\* The loop's second update, and the return of the updated row.
MarkDone(r) ==
    /\ Quiet
    /\ req[r].pc = "markDone"
    /\ LET q == req[r]
           id == q.runId
       IN IF id \notin DOMAIN jobs
          THEN /\ Respond(r, ErrorResp(q, "Record to update not found."))
               /\ UNCHANGED jobs
          ELSE LET doneRun == DoneData(jobs[id])
               IN /\ jobs' = [jobs EXCEPT ![id] = doneRun]
                  /\ AfterContinue(r, doneRun.done, doneRun.processedOrders,
                                   doneRun.salesByVariant)
    /\ UNCHANGED << pageVars, syncVars, now, nextId, overlapped, markDoneFailed, failures >>

\* The time budget is spent: findUnique again, and the return of `latest`
\* (`{...null}` is an empty object: done undefined, processedOrders ?? 0).
ReadLatest(r) ==
    /\ Quiet
    /\ req[r].pc = "latest"
    /\ LET id == req[r].runId
       IN IF id \in DOMAIN jobs
          THEN AfterContinue(r, jobs[id].done, jobs[id].processedOrders,
                             jobs[id].salesByVariant)
          ELSE AfterContinue(r, FALSE, 0, EmptySales)
    /\ UNCHANGED << pageVars, syncVars, now, nextId, jobs, overlapped, markDoneFailed, failures >>

\* The rows of the report: every active variant whose qtySold (0 when the
\* accumulator has no entry for it) passes `.filter(r => r.qtySold <=
\* periodQtySoldLTE)`; a row is identified by its variant.
ReportRowsOf(variants, salesByVariant, periodQtySoldLTE) ==
    {v \in variants :
        (IF v \in DOMAIN salesByVariant THEN salesByVariant[v].qtySold ELSE 0)
            <= periodQtySoldLTE}

\* The rows when the variant scan returns the variants that the orders sell.
ReportRows(salesByVariant, periodQtySoldLTE) ==
    ReportRowsOf(Variants, salesByVariant, periodQtySoldLTE)

\* A done reportContinue of a shop with `catalog` active variants:
\* fetchAllActiveVariants (GraphQL queries), the receipt lookup and the rows,
\* then the answer with `truncated`.  (`variantsCount` and `catalog` are not
\* in the body: they record what the scan returned and what the shop held.)
AssembleReportOfCatalog(r, catalog) ==
    /\ Quiet
    /\ req[r].pc = "variants"
    /\ LET allVariantsResult == fetchAllActiveVariants(catalog)
           variants == {VariantIds[i] : i \in 1..allVariantsResult.count}
       IN Respond(r, [ReportResp(req[r], TRUE, req[r].processedOrders,
                                 allVariantsResult.queries)
                         EXCEPT !.rows = ReportRowsOf(variants,
                                                      req[r].salesByVariant,
                                                      req[r].periodQtySoldLTE),
                                !.truncated = allVariantsResult.truncated,
                                !.variantsCount = allVariantsResult.count,
                                !.catalog = catalog])
    /\ UNCHANGED << pageVars, syncVars, now, nextId, jobs, overlapped, markDoneFailed, failures >>

\* A done reportContinue of a shop whose active variants are those that the
\* orders sell.
AssembleReport(r) == AssembleReportOfCatalog(r, Cardinality(Variants))

\* fetchAllActiveVariants throws.
AssembleReportFail(r) ==
    /\ Quiet
    /\ req[r].pc = "variants"
    /\ Respond(r, ErrorResp(req[r],
                   "Could not read productVariants from GraphQL response."))
    /\ UNCHANGED << pageVars, syncVars, now, nextId, jobs, overlapped, markDoneFailed >>
    /\ failures < MaxFailures
    /\ failures' = failures + 1

\* A Prisma call throws (connection lost, timeout): nothing is written, and the
\* error reaches the action's catch.
DbFail(r) ==
    /\ Quiet
    /\ req[r].pc \in {"cleanup", "create", "read", "advance", "markDone", "latest"}
    /\ Respond(r, ErrorResp(req[r], "Can't reach database server."))
    /\ markDoneFailed' = [j \in RunIds |->
           markDoneFailed[j] \/ (req[r].pc = "markDone" /\ req[r].runId = j)]
    /\ UNCHANGED << pageVars, syncVars, now, nextId, jobs, overlapped >>
    /\ failures < MaxFailures
    /\ failures' = failures + 1

\* The client receives the response.
ClientReceive ==
    /\ ~Quiet
    /\ lastResp' = NoResp
    /\ UNCHANGED << pageVars, syncVars, now, nextId, jobs, req, overlapped, markDoneFailed, failures >>

Next ==
    \/ ClientReceive
    \/ \E r \in Reqs, s \in Shops, t \in ThresholdInputs, d \in LookBackInputs :
          SubmitReportStart(r, s, t, d)
    \/ \E r \in Reqs, s \in Shops, id \in RunIds \cup {UnknownId},
             t \in PollerThresholdInputs :
          SubmitReportContinue(r, s, id, t)
    \/ \E r \in Reqs :
          \/ cleanupOldRuns(r)
          \/ startReportRun(r)
          \/ ReadRun(r)
          \/ FetchOrders(r)
          \/ FetchOrdersFail(r)
          \/ Advance(r)
          \/ MarkDone(r)
          \/ ReadLatest(r)
          \/ AssembleReport(r)
          \/ AssembleReportFail(r)
          \/ DbFail(r)

\* Requests within one day.
Spec == Init /\ [][Next]_vars

\* Requests over several days (the 48-hour cleanup deletes rows).
SpecClock == Init /\ [][Next \/ Tick]_vars

(* ----------------------- requests on stored runs ----------------------- *)

\* Rows that earlier requests (or an operator) left in the table: ids that no
\* new run gets, two shops, created 72, 48 or 0 hours ago.
StoredIds == {0 - 2, 0 - 1}
StoredShops == {"s1", "s2"}
StoredAges == {RetentionDays + 1, RetentionDays, 0}
\* `run.error` of a stored row whose status is "error" ("" is null).
StoredErrors == {"", "Throttled"}
\* The periodQtySoldLTE that the reportStart of a stored row captured.
StoredThresholds == {1}

RECURSIVE EdgesFrom(_)
\* All orders of a set as edges, in CREATED_AT order.
EdgesFrom(S) ==
    IF S = {} THEN << >>
    ELSE LET i == CHOOSE x \in S : \A y \in S : x <= y
         IN << OrderEdge(i) >> \o EdgesFrom(S \ {i})

\* A stored row: as startReportRun created it (state "running"), as a scan of
\* all pages left it (state "done"), or with status "error" and a message.
StoredRun(shop, age, periodQtySoldLTE, state, message) ==
    LET run == [NewRun([IdleReq EXCEPT !.shop = shop,
                                       !.periodQtySoldLTE = periodQtySoldLTE,
                                       !.lookBackDays = MaxOrders])
                  EXCEPT !.createdAt = now - age,
                         !.sinceISO = now - age - MaxOrders]
        edges == EdgesFrom(Remaining(run.sinceISO, NoCursor))
    IN CASE state = "running" -> run
         [] state = "done" ->
              DoneData([run EXCEPT !.processedOrders = Len(edges),
                           !.salesByVariant = mergeSalesMap(EmptySales, edges)])
         [] OTHER -> [run EXCEPT !.status = "error", !.error = message]

\* Two stored rows: one of shop s1 of any age and in any state, and an old one
\* of either shop that is done.
InitStored ==
    /\ now = FirstDay
    /\ nextId = 1
    /\ \E a1 \in StoredAges, s2 \in StoredShops, t \in StoredThresholds,
          st1 \in {"running", "done", "error"}, m \in StoredErrors :
          jobs = [j \in StoredIds |->
                    IF j = 0 - 1 THEN StoredRun("s1", a1, t, st1, m)
                    ELSE StoredRun(s2, RetentionDays + 1, t, "done", "")]
    /\ req = [r \in Reqs |-> IdleReq]
    /\ lastResp = NoResp
    /\ overlapped = [j \in RunIds |-> FALSE]
    /\ markDoneFailed = [j \in RunIds |-> FALSE]
    /\ failures = 0
    /\ InitSyncTables
    /\ InitPage
    /\ poCount = 0

\* The requests of one client at a time, of either shop, for any run id and
\* with any threshold.
NextStored ==
    \/ ClientReceive
    \/ \E s \in StoredShops, t \in ThresholdInputs, d \in LookBackInputs :
          SubmitReportStart(1, s, t, d)
    \/ \E s \in StoredShops, id \in StoredIds \cup RunIds \cup {UnknownId},
          t \in ContinueThresholdInputs :
          SubmitReportContinue(1, s, id, t)
    \/ cleanupOldRuns(1)
    \/ startReportRun(1)
    \/ ReadRun(1)
    \/ FetchOrders(1)
    \/ FetchOrdersFail(1)
    \/ Advance(1)
    \/ MarkDone(1)
    \/ ReadLatest(1)
    \/ AssembleReport(1)
    \/ AssembleReportFail(1)
    \/ DbFail(1)

SpecStored == InitStored /\ [][NextStored]_vars

\* reportContinue requests on the stored rows, of shops with any number of
\* active variants.
NextVariants ==
    \/ ClientReceive
    \/ \E s \in StoredShops, id \in StoredIds \cup {UnknownId},
          t \in ContinueThresholdInputs :
          SubmitReportContinue(1, s, id, t)
    \/ ReadRun(1)
    \/ FetchOrders(1)
    \/ FetchOrdersFail(1)
    \/ Advance(1)
    \/ MarkDone(1)
    \/ ReadLatest(1)
    \/ \E catalog \in 0..MaxCatalog : AssembleReportOfCatalog(1, catalog)
    \/ AssembleReportFail(1)
    \/ DbFail(1)

SpecVariants == InitStored /\ [][NextVariants]_vars

(* ---------------------------- sync actions ----------------------------- *)

RECURSIVE KeepItems(_, _)
\* The purchase items of a list that pass `if (!sku || !receivedAt) continue`
\* and, when parsed is TRUE, also safeDate.
KeepItems(items, parsed) ==
    IF items = << >> THEN << >>
    ELSE LET item == Head(items)
             keep == /\ item.sku # ""
                     /\ item.received_at # NoDate
                     /\ (parsed => item.received_at # BadDate)
         IN (IF keep THEN << item >> ELSE << >>) \o KeepItems(Tail(items), parsed)

RECURSIVE ItemsOfOrders(_)
\* `for (const po of orders) for (const item of po.purchase_items)`.
ItemsOfOrders(orders) ==
    IF orders = << >> THEN << >>
    ELSE PurchaseItemsOf(Head(orders)) \o ItemsOfOrders(Tail(orders))

\* A full-sync chunk that has written a receipt for an item of the page it
\* fetched last and has not persisted the offset behind that page.
MidPage(q) ==
    /\ q.intent = "stockyFullSync"
    /\ q.pc \in {"find", "write", "advance"}
    /\ q.pageWrites > 0

\* action, intent stockyFullSync: the key check, `mode`, then runFullSyncChunk.
FullSyncArrives(r, shopDomain, stockyApiKey, mode) ==
    /\ SyncQuiet
    /\ SyncSlotFree(r)
    /\ LET q == [IdleSync EXCEPT !.intent = "stockyFullSync",
                                 !.shop = shopDomain,
                                 !.startFresh = (mode = "start")]
       IN IF stockyApiKey = ""
          THEN SyncRespond(r, SyncErrorResp(q, "STOCKY_API_KEY is not set."))
          ELSE /\ sreq' = [sreq EXCEPT ![r] =
                     [q EXCEPT !.pc = IF q.startFresh THEN "reset" ELSE "getState"]]
               /\ UNCHANGED syncResp
    /\ UNCHANGED << syncState, receipts, syncFailures, poCount, partialFailed, reportVars >>

\* A stockyFullSync request of any client.
SubmitFullSync(r, shopDomain, stockyApiKey, mode) ==
    /\ FullSyncArrives(r, shopDomain, stockyApiKey, mode)
    /\ UNCHANGED pageVars

\* action, intent stockyQuickSync: the key check, then stockyQuickSync, whose
\* one page is fetched at offset `p * limit` = 0.
SubmitQuickSync(r, shopDomain, stockyApiKey) ==
    /\ SyncQuiet
    /\ SyncSlotFree(r)
    /\ LET q == [IdleSync EXCEPT !.intent = "stockyQuickSync",
                                 !.shop = shopDomain]
       IN IF stockyApiKey = ""
          THEN SyncRespond(r, SyncErrorResp(q, "STOCKY_API_KEY is not set."))
          ELSE /\ sreq' = [sreq EXCEPT ![r] = [q EXCEPT !.pc = "fetch"]]
               /\ UNCHANGED syncResp
    /\ UNCHANGED << syncState, receipts, syncFailures, poCount, partialFailed, reportVars, pageVars >>

\* The row both branches of resetFullSync's and getOrCreateSyncState's upsert
\* create.
FreshSyncState == [fullOffset |-> 0, fullDone |-> FALSE]

\* resetFullSync: upsert with update and create { fullOffset: 0, fullDone: false }.
resetFullSync(r) ==
    /\ SyncQuiet
    /\ sreq[r].pc = "reset"
    /\ syncState' = [x \in DOMAIN syncState \cup {sreq[r].shop} |->
                       IF x = sreq[r].shop THEN FreshSyncState ELSE syncState[x]]
    /\ sreq' = [sreq EXCEPT ![r].pc = "getState"]
    /\ UNCHANGED << receipts, syncResp, syncFailures, poCount, partialFailed, reportVars, pageVars >>

\* Mutant: a complete sync is scanned again.
AlreadyComplete_Never(state) == FALSE

\* `if (state.fullDone)`
AlreadyComplete(state) == state.fullDone

\* getOrCreateSyncState (upsert with an empty update), then
\* `if (state.fullDone) return`, else `let offset = state.fullOffset`.
getOrCreateSyncState(r) ==
    /\ SyncQuiet
    /\ sreq[r].pc = "getState"
    /\ LET q == sreq[r]
           state == IF q.shop \in DOMAIN syncState THEN syncState[q.shop]
                    ELSE FreshSyncState
       IN /\ syncState' = [x \in DOMAIN syncState \cup {q.shop} |->
                              IF x = q.shop THEN state ELSE syncState[x]]
          /\ IF AlreadyComplete(state)
             THEN SyncRespond(r, SyncResultResp(q, TRUE, state.fullOffset))
             ELSE /\ sreq' = [sreq EXCEPT ![r].pc = "fetch",
                                          ![r].offset = state.fullOffset]
                  /\ UNCHANGED syncResp
    /\ UNCHANGED << receipts, syncFailures, poCount, partialFailed, reportVars, pageVars >>

\* Mutant: the quick sync persists its progress as the full sync does.
PageDone_AlwaysAdvance(r, q) ==
    /\ sreq' = [sreq EXCEPT ![r] = [q EXCEPT !.pc = "advance"]]
    /\ UNCHANGED syncResp

\* The items of a page are through: the quick sync returns (its loop has one
\* pass), the full sync goes on to persist the offset.
PageDone(r, q) ==
    IF q.intent = "stockyQuickSync"
    THEN SyncRespond(r, SyncResultResp(q, FALSE, 0))
    ELSE /\ sreq' = [sreq EXCEPT ![r] = [q EXCEPT !.pc = "advance"]]
         /\ UNCHANGED syncResp

\* upsertReceiptForSku returned for the first of the items.
ItemDone(r, q) ==
    IF Tail(q.items) # << >>
    THEN /\ sreq' = [sreq EXCEPT ![r] = [q EXCEPT !.pc = "find",
                                                  !.items = Tail(q.items)]]
         /\ UNCHANGED syncResp
    ELSE PageDone(r, [q EXCEPT !.items = << >>])

\* Mutant: the offset behind a page is persisted when the page arrives, before
\* its items are upserted.
FetchPage_PersistsOffsetFirst(r) ==
    /\ SyncQuiet
    /\ sreq[r].pc = "fetch"
    /\ LET q0 == sreq[r]
           orders == PurchaseOrdersPage(poCount, StockyLimit, q0.offset)
           items == ItemsOfOrders(orders)
           q == [q0 EXCEPT !.fetches = @ + 1,
                           !.firstOffset = IF q0.fetches = 0 THEN q0.offset ELSE @,
                           !.ordersLen = Len(orders),
                           !.scannedOrders = @ + Len(orders),
                           !.itemsProcessed = @ + Len(KeepItems(items, FALSE)),
                           !.items = KeepItems(items, TRUE),
                           !.pageWrites = 0,
                           !.attempt = 0, !.retryAfter = NoRetryAfter,
                           !.waitMs = 0]
       IN /\ IF q.intent = "stockyFullSync" /\ q.shop \in DOMAIN syncState
             THEN syncState' = [syncState EXCEPT
                                   ![q.shop].fullOffset = q.offset + Len(orders)]
             ELSE UNCHANGED syncState
          /\ IF Len(orders) = 0
             THEN IF q.intent = "stockyQuickSync"
                  THEN SyncRespond(r, SyncResultResp(q, FALSE, 0))
                  ELSE /\ sreq' = [sreq EXCEPT ![r] = [q EXCEPT !.pc = "markDone"]]
                       /\ UNCHANGED syncResp
             ELSE IF q.items = << >>
                  THEN PageDone(r, q)
                  ELSE /\ sreq' = [sreq EXCEPT ![r] = [q EXCEPT !.pc = "find"]]
                       /\ UNCHANGED syncResp
    /\ UNCHANGED << receipts, syncFailures, poCount, partialFailed, reportVars, pageVars >>

\* fetchStockyPurchaseOrdersPage returns a page (status 200), and the driver
\* looks at `orders.length`.
FetchPage(r) ==
    /\ SyncQuiet
    /\ sreq[r].pc = "fetch"
    /\ LET q0 == sreq[r]
           orders == PurchaseOrdersPage(poCount, StockyLimit, q0.offset)
           items == ItemsOfOrders(orders)
           q == [q0 EXCEPT !.fetches = @ + 1,
                           !.firstOffset = IF q0.fetches = 0 THEN q0.offset ELSE @,
                           !.ordersLen = Len(orders),
                           !.scannedOrders = @ + Len(orders),
                           !.itemsProcessed = @ + Len(KeepItems(items, FALSE)),
                           !.items = KeepItems(items, TRUE),
                           !.pageWrites = 0,
                           !.attempt = 0, !.retryAfter = NoRetryAfter,
                           !.waitMs = 0]
       IN IF Len(orders) = 0
          THEN IF q.intent = "stockyQuickSync"
               THEN SyncRespond(r, SyncResultResp(q, FALSE, 0))
               ELSE /\ sreq' = [sreq EXCEPT ![r] = [q EXCEPT !.pc = "markDone"]]
                    /\ UNCHANGED syncResp
          ELSE IF q.items = << >>
               THEN PageDone(r, q)
               ELSE /\ sreq' = [sreq EXCEPT ![r] = [q EXCEPT !.pc = "find"]]
                    /\ UNCHANGED syncResp
    /\ UNCHANGED << syncState, receipts, syncFailures, poCount, partialFailed, reportVars, pageVars >>

\* The error of fetchStockyPurchaseOrdersPage after the last attempt.
RateLimitedMessage == "Stocky API error (429): rate limited. Retried 7 times."

\* Mutant: after the last attempt the loop is left, and `return []` answers.
RateLimited_ReturnsEmpty(r, retryAfter) ==
    /\ SyncQuiet
    /\ sreq[r].pc = "fetch"
    /\ syncFailures < MaxSyncFailures
    /\ LET q == sreq[r]
       IN IF q.attempt = MAX_RETRIES
          THEN /\ IF q.intent = "stockyQuickSync"
                  THEN SyncRespond(r, SyncResultResp(
                           [q EXCEPT !.fetches = @ + 1], FALSE, 0))
                  ELSE /\ sreq' = [sreq EXCEPT ![r] =
                              [q EXCEPT !.pc = "markDone", !.fetches = @ + 1,
                                        !.ordersLen = 0, !.attempt = 0]]
                       /\ UNCHANGED syncResp
               /\ UNCHANGED syncFailures
          ELSE /\ sreq' = [sreq EXCEPT ![r] =
                      [q EXCEPT !.attempt = @ + 1, !.retryAfter = retryAfter,
                                !.waitMs = WaitMs(retryAfter, q.attempt)]]
               /\ UNCHANGED << syncResp, syncFailures >>
    /\ UNCHANGED << syncState, receipts, poCount, partialFailed, reportVars, pageVars >>

\* One pass of fetchStockyPurchaseOrdersPage's loop whose response has status
\* 429: the wait is computed from the retry-after header; after the last
\* attempt the call throws, else it sleeps and goes on with the next attempt.
RateLimited(r, retryAfter) ==
    /\ SyncQuiet
    /\ sreq[r].pc = "fetch"
    /\ syncFailures < MaxSyncFailures
    /\ LET q == sreq[r]
       IN IF q.attempt = MAX_RETRIES
          THEN /\ SyncRespond(r, SyncErrorResp([q EXCEPT !.fetches = @ + 1],
                                               RateLimitedMessage))
               /\ syncFailures' = syncFailures + 1
          ELSE /\ sreq' = [sreq EXCEPT ![r] =
                      [q EXCEPT !.attempt = @ + 1, !.retryAfter = retryAfter,
                                !.waitMs = WaitMs(retryAfter, q.attempt)]]
               /\ UNCHANGED << syncResp, syncFailures >>
    /\ UNCHANGED << syncState, receipts, poCount, partialFailed, reportVars, pageVars >>

\* fetchStockyPurchaseOrdersPage throws (a status that is not ok, or 429 on
\* every attempt).
FetchPageFail(r) ==
    /\ SyncQuiet
    /\ sreq[r].pc = "fetch"
    /\ syncFailures < MaxSyncFailures
    /\ syncFailures' = syncFailures + 1
    /\ SyncRespond(r, SyncErrorResp([sreq[r] EXCEPT !.fetches = @ + 1],
                                    "Stocky API error"))
    /\ UNCHANGED << syncState, receipts, poCount, partialFailed, reportVars, pageVars >>

\* Mutant: the later timestamp is kept as the first one.
NextFirst_Latest(first, dt) == IF first = NoDate \/ dt > first THEN dt ELSE first

\* `if (!nextFirst || dt < nextFirst) nextFirst = dt`
NextFirst(first, dt) == IF first = NoDate \/ dt < first THEN dt ELSE first

\* `if (!nextLast || dt > nextLast) nextLast = dt`
NextLast(last, dt) == IF last = NoDate \/ dt > last THEN dt ELSE last

\* Mutant: the two timestamps are written to each other's column.
UpsertData_Swapped(existing, dt) ==
    IF existing.found
    THEN [firstReceivedAt |-> NextLast(existing.lastReceivedAt, dt),
          lastReceivedAt |-> NextFirst(existing.firstReceivedAt, dt)]
    ELSE [firstReceivedAt |-> dt, lastReceivedAt |-> dt]

\* The data of the create (no row found) and of the update (computed from
\* the row that findUnique returned).
UpsertData(existing, dt) ==
    IF existing.found
    THEN [firstReceivedAt |-> NextFirst(existing.firstReceivedAt, dt),
          lastReceivedAt |-> NextLast(existing.lastReceivedAt, dt)]
    ELSE [firstReceivedAt |-> dt, lastReceivedAt |-> dt]

\* Mutant: the row is written whether or not the timestamp changes it.
Changed_Always(row, dt) == TRUE

\* `changed`: the timestamp moves the first or the last bound of the row.
Changed(row, dt) ==
    \/ NextFirst(row.firstReceivedAt, dt) # row.firstReceivedAt
    \/ NextLast(row.lastReceivedAt, dt) # row.lastReceivedAt

\* upsertReceiptForSku up to its write: findUnique, and `changed`.  A row that
\* the timestamp does not change is left alone, and the call returns.
FindReceipt(r) ==
    /\ SyncQuiet
    /\ sreq[r].pc = "find"
    /\ LET q == sreq[r]
           item == Head(q.items)
           key == << q.shop, item.sku >>
           dt == item.received_at
       IN IF key \notin DOMAIN receipts
          THEN /\ sreq' = [sreq EXCEPT ![r].pc = "write",
                                       ![r].existing = IdleSync.existing]
               /\ UNCHANGED syncResp
          ELSE LET row == receipts[key]
               IN IF Changed(row, dt)
                  THEN /\ sreq' = [sreq EXCEPT ![r].pc = "write",
                              ![r].existing =
                                  [found |-> TRUE,
                                   firstReceivedAt |-> row.firstReceivedAt,
                                   lastReceivedAt |-> row.lastReceivedAt]]
                       /\ UNCHANGED syncResp
                  ELSE ItemDone(r, q)
    /\ UNCHANGED << syncState, receipts, syncFailures, poCount, partialFailed, reportVars, pageVars >>

\* The write of upsertReceiptForSku: create when findUnique found no row (the
\* unique index on (shop, sku) rejects a second row), else update with the
\* values computed from the row that findUnique returned.
WriteReceipt(r) ==
    /\ SyncQuiet
    /\ sreq[r].pc = "write"
    /\ LET q == sreq[r]
           item == Head(q.items)
           key == << q.shop, item.sku >>
           dt == item.received_at
           data == UpsertData(q.existing, dt)
       IN IF ~q.existing.found /\ key \in DOMAIN receipts
          THEN /\ SyncRespond(r, SyncErrorResp(q,
                      "Unique constraint failed on the fields: (shop, sku)"))
               /\ partialFailed' = (partialFailed \/ MidPage(q))
               /\ UNCHANGED receipts
          ELSE /\ receipts' = [x \in DOMAIN receipts \cup {key} |->
                                  IF x = key THEN data ELSE receipts[x]]
               /\ ItemDone(r, [q EXCEPT !.pageWrites = @ + 1])
               /\ UNCHANGED partialFailed
    /\ UNCHANGED << syncState, syncFailures, poCount, reportVars, pageVars >>

\* Mutant: a full page ends the sync, too.
IsShortPage_OrFull(ordersLen, limit) == ordersLen <= limit

\* `orders.length < limit`
IsShortPage(ordersLen, limit) == ordersLen < limit

\* `offset += orders.length`, the update of fullOffset, then
\* `if (orders.length < limit)`, else the sleep and the loop condition
\* `Date.now() - startedAt < MAX_MS`, which either holds or not.
AdvanceOffset(r) ==
    /\ SyncQuiet
    /\ sreq[r].pc = "advance"
    /\ LET q == [sreq[r] EXCEPT !.offset = @ + sreq[r].ordersLen]
       IN /\ syncState' = [syncState EXCEPT ![q.shop].fullOffset = q.offset]
          /\ \/ /\ IsShortPage(q.ordersLen, StockyLimit)
                /\ sreq' = [sreq EXCEPT ![r] = [q EXCEPT !.pc = "markDone"]]
                /\ UNCHANGED syncResp
             \/ /\ ~IsShortPage(q.ordersLen, StockyLimit)
                /\ sreq' = [sreq EXCEPT ![r] = [q EXCEPT !.pc = "fetch"]]
                /\ UNCHANGED syncResp
             \/ /\ ~IsShortPage(q.ordersLen, StockyLimit)
                /\ SyncRespond(r, SyncResultResp(q, FALSE, q.offset))
    /\ UNCHANGED << receipts, syncFailures, poCount, partialFailed, reportVars, pageVars >>

\* The update { fullDone: true } (after an empty page, or after the offset of
\* a short page was persisted), and the return.
MarkFullDone(r) ==
    /\ SyncQuiet
    /\ sreq[r].pc = "markDone"
    /\ syncState' = [syncState EXCEPT ![sreq[r].shop].fullDone = TRUE]
    /\ SyncRespond(r, SyncResultResp(sreq[r], TRUE, sreq[r].offset))
    /\ UNCHANGED << receipts, syncFailures, poCount, partialFailed, reportVars, pageVars >>

\* A Prisma call of a sync request throws: nothing is written, and the error
\* reaches the action's catch.
SyncDbFail(r) ==
    /\ SyncQuiet
    /\ sreq[r].pc \in {"reset", "getState", "find", "write", "advance", "markDone"}
    /\ syncFailures < MaxSyncFailures
    /\ syncFailures' = syncFailures + 1
    /\ SyncRespond(r, SyncErrorResp(sreq[r], "Can't reach database server."))
    /\ partialFailed' = (partialFailed \/ MidPage(sreq[r]))
    /\ UNCHANGED << syncState, receipts, poCount, reportVars, pageVars >>

\* The client receives the response of a sync request.
SyncReceive ==
    /\ ~SyncQuiet
    /\ syncResp' = NoSyncResp
    /\ UNCHANGED << syncState, receipts, sreq, syncFailures, poCount, partialFailed, reportVars, pageVars >>

\* Form values a client may post for `mode`, and the STOCKY_API_KEY of the
\* environment.
ModeInputs == {"start", "continue"}
ApiKeys == {"", "key"}

NextSync ==
    \/ SyncReceive
    \/ \E r \in Reqs, s \in Shops, k \in ApiKeys, m \in ModeInputs :
          SubmitFullSync(r, s, k, m)
    \/ \E r \in Reqs, s \in Shops, k \in ApiKeys : SubmitQuickSync(r, s, k)
    \/ \E r \in Reqs :
          \/ resetFullSync(r)
          \/ getOrCreateSyncState(r)
          \/ FetchPage(r)
          \/ FetchPageFail(r)
          \/ FindReceipt(r)
          \/ WriteReceipt(r)
          \/ AdvanceOffset(r)
          \/ MarkFullDone(r)
          \/ SyncDbFail(r)

\* The third-party list holds some number of purchase orders.
InitSync ==
    /\ InitReport
    /\ InitSyncTables
    /\ InitPage
    /\ poCount \in 0..MaxPOs

\* Full-sync and quick-sync requests of a shop.
SpecSync == InitSync /\ [][NextSync]_vars

\* The sync requests of one client that submits after the response to its
\* previous request arrived, one after the other, with the
\* passes of the fetcher's retry loop as steps of their own.
\* The steps of the request that is in flight: each of its awaits returns.
SyncStepSeq ==
    \/ resetFullSync(1)
    \/ getOrCreateSyncState(1)
    \/ FetchPage(1)
    \/ \E h \in RetryAfterInputs : RateLimited(1, h)
    \/ FetchPageFail(1)
    \/ FindReceipt(1)
    \/ WriteReceipt(1)
    \/ AdvanceOffset(1)
    \/ MarkFullDone(1)
    \/ SyncDbFail(1)

NextSyncSeq ==
    \/ SyncReceive
    \/ \E s \in Shops, k \in ApiKeys, m \in ModeInputs : SubmitFullSync(1, s, k, m)
    \/ \E s \in Shops, k \in ApiKeys : SubmitQuickSync(1, s, k)
    \/ SyncStepSeq

SpecSyncSeq == InitSync /\ [][NextSyncSeq]_vars

\* Every await of a request in flight returns at some time (the HTTP response
\* of the third party or the answer of the database arrives).
SpecSyncSeqFair == SpecSyncSeq /\ WF_vars(SyncStepSeq)

(* ------------------------- restocking report -------------------------- *)

\* The restocking report's action up to its loop: the dates of the form are
\* converted, and a date that does not parse returns at once.
RestockSubmit(pages, validDates) ==
    /\ restock.pc = "idle"
    /\ restock' = IF validDates
                  THEN [IdleRestock EXCEPT !.pc = "loop", !.pages = pages,
                                           !.hasNextPage = TRUE]
                  ELSE [IdleRestock EXCEPT !.pc = "done", !.pages = pages,
                                           !.error = "Invalid date input"]
    /\ UNCHANGED << syncVars, reportVars, reportFetcher, fullSyncFetcher >>

\* One iteration of `while (hasNextPage)`: the query succeeds, `matched` of
\* the page's orders lie between the dates, then the two safety caps.
RestockFetch(matched) ==
    /\ restock.pc = "loop"
    /\ restock.hasNextPage
    /\ LET page == restock.cursor + 1
           edges == IF page <= restock.pages THEN RestockFirst ELSE 0
           hasNextPage == page < restock.pages
           allOrders == restock.allOrders + matched
           pageCount == restock.pageCount + 1
       IN /\ matched <= edges
          /\ restock' = [restock EXCEPT
                 !.fetches = @ + 1,
                 !.allOrders = allOrders,
                 !.cursor = page,
                 !.hasNextPage = hasNextPage,
                 !.pageCount = pageCount,
                 !.pc = IF pageCount > RestockPageLimit THEN "done"
                        ELSE IF allOrders > RestockOrderLimit THEN "done"
                        ELSE IF hasNextPage THEN "loop" ELSE "done"]
    /\ UNCHANGED << syncVars, reportVars, reportFetcher, fullSyncFetcher >>

\* The query answers with `errors`: the loop breaks.
RestockFetchErrors ==
    /\ restock.pc = "loop"
    /\ restock.hasNextPage
    /\ restock' = [restock EXCEPT !.fetches = @ + 1, !.pc = "done"]
    /\ UNCHANGED << syncVars, reportVars, reportFetcher, fullSyncFetcher >>

\* The rows are built from allOrders and the action returns.
RestockReturn ==
    /\ restock.pc = "done"
    /\ restock' = IdleRestock
    /\ UNCHANGED << syncVars, reportVars, reportFetcher, fullSyncFetcher >>

NextRestock ==
    \/ \E pages \in 0..MaxRestockPages, validDates \in BOOLEAN :
          RestockSubmit(pages, validDates)
    \/ \E matched \in 0..RestockFirst : RestockFetch(matched)
    \/ RestockFetchErrors
    \/ RestockReturn

SpecRestock == Init /\ [][NextRestock]_vars

(* ---------------------- iteration-capped driver ------------------------ *)

\* A running row of the shop whose scan has not begun.
InitCapped ==
    /\ now = FirstDay
    /\ nextId = 1
    /\ jobs = [j \in {0 - 1} |-> StoredRun("s1", 0, 1, "running", "")]
    /\ req = [r \in Reqs |-> IdleReq]
    /\ lastResp = NoResp
    /\ overlapped = [j \in RunIds |-> FALSE]
    /\ markDoneFailed = [j \in RunIds |-> FALSE]
    /\ failures = 0
    /\ InitSyncTables
    /\ InitPage
    /\ poCount = 0

\* The requests of one client at a time to the route whose chunk driver is
\* the iteration-capped copy.
NextCapped ==
    \/ ClientReceive
    \/ \E s \in Shops, t \in ThresholdInputs, d \in LookBackInputs :
          SubmitReportStart(1, s, t, d)
    \/ \E s \in Shops, id \in {0 - 1} \cup RunIds \cup {UnknownId},
          t \in PollerThresholdInputs :
          SubmitReportContinue(1, s, id, t)
    \/ cleanupOldRuns(1)
    \/ startReportRun(1)
    \/ ReadRun(1)
    \/ FetchOrdersCapped(1)
    \/ FetchOrdersFail(1)
    \/ AdvanceCapped(1)
    \/ MarkDone(1)
    \/ ReadLatest(1)
    \/ AssembleReport(1)
    \/ AssembleReportFail(1)
    \/ DbFail(1)

SpecCapped == InitCapped /\ [][NextCapped]_vars

(* ------------------------- session and URL ----------------------------- *)

\* The shop of the session that authenticate.admin returns for the requests
\* of one merchant, and the values of the URL's `shop` parameter that a
\* client may send ("" is no parameter).
SessionShop == "s1"
UrlShops == {"", "s1", "s2"}

\* `shopFromUrl || session?.shop || null` ("" is null)
ShopDomain(shopFromUrl, sessionShop) ==
    IF shopFromUrl # "" THEN shopFromUrl ELSE sessionShop

\* A running row of the session's shop and a row of another shop, old or
\* new, running or done; the third party holds one purchase order.
InitTenant ==
    /\ now = FirstDay
    /\ nextId = 1
    /\ \E a \in {RetentionDays + 1, 0}, st \in {"running", "done"} :
          jobs = [j \in StoredIds |->
                    IF j = 0 - 1 THEN StoredRun(SessionShop, 0, 1, "running", "")
                    ELSE StoredRun("s2", a, 1, st, "")]
    /\ req = [r \in Reqs |-> IdleReq]
    /\ lastResp = NoResp
    /\ overlapped = [j \in RunIds |-> FALSE]
    /\ markDoneFailed = [j \in RunIds |-> FALSE]
    /\ failures = 0
    /\ InitSyncTables
    /\ InitPage
    /\ poCount = 1

\* No request of the merchant is in flight or unanswered.
TenantIdle ==
    /\ Quiet
    /\ SyncQuiet
    /\ req[1].pc = "idle"
    /\ sreq[1].pc = "idle"

\* The requests of the merchant's session, one at a time, with any `shop`
\* parameter in the URL; every call of the database, of Shopify and of the
\* third party succeeds.
NextTenant ==
    \/ ClientReceive
    \/ SyncReceive
    \/ \E u \in UrlShops, t \in ThresholdInputs :
          TenantIdle
          /\ SubmitReportStart(1, ShopDomain(u, SessionShop), t, MaxOrders)
    \/ \E u \in UrlShops, id \in StoredIds \cup RunIds \cup {UnknownId},
          t \in PollerThresholdInputs :
          TenantIdle /\ SubmitReportContinue(1, ShopDomain(u, SessionShop), id, t)
    \/ \E u \in UrlShops, k \in ApiKeys, m \in ModeInputs :
          TenantIdle /\ SubmitFullSync(1, ShopDomain(u, SessionShop), k, m)
    \/ \E u \in UrlShops, k \in ApiKeys :
          TenantIdle /\ SubmitQuickSync(1, ShopDomain(u, SessionShop), k)
    \/ cleanupOldRuns(1)
    \/ startReportRun(1)
    \/ ReadRun(1)
    \/ FetchOrders(1)
    \/ FetchOrdersFail(1)
    \/ Advance(1)
    \/ MarkDone(1)
    \/ ReadLatest(1)
    \/ AssembleReport(1)
    \/ resetFullSync(1)
    \/ getOrCreateSyncState(1)
    \/ FetchPage(1)
    \/ FindReceipt(1)
    \/ WriteReceipt(1)
    \/ AdvanceOffset(1)
    \/ MarkFullDone(1)

SpecTenant == InitTenant /\ [][NextTenant]_vars

(* ------------------------ reference quantities ------------------------- *)

RECURSIVE ItemsQty(_, _)
\* The quantity of variant v over a list of line items.
ItemsQty(lineItems, v) ==
    IF lineItems = << >> THEN 0
    ELSE (IF Head(lineItems).variant = v THEN Head(lineItems).quantity ELSE 0)
         + ItemsQty(Tail(lineItems), v)

RECURSIVE OrdersQty(_, _)
\* The quantity of variant v over a set of orders.
OrdersQty(S, v) ==
    IF S = {} THEN 0
    ELSE LET i == CHOOSE x \in S : TRUE
         IN ItemsQty(LineItemsOf(i), v) + OrdersQty(S \ {i}, v)

\* The orders of the scan window of a run, and those a cursor has passed.
Window(sinceISO) == Remaining(sinceISO, NoCursor)
Passed(sinceISO, cursor) == {i \in Window(sinceISO) : i <= cursor}

QtySold(sales, v) == IF v \in DOMAIN sales THEN sales[v].qtySold ELSE 0

EdgesOf(S) == TakeEdges(S, Cardinality(S))

(* ------------------------------- claims -------------------------------- *)

\* C1: in every persisted state of a report job, done is true if and only if
\* status is "done".
C1_DoneIffStatusDone ==
    \A j \in DOMAIN jobs : jobs[j].done <=> (jobs[j].status = "done")

\* C2: when a job whose requests never overlapped is done, the persisted
\* quantity of every variant is the sum of the variant's quantities over the
\* pages of the scan window (each page merged exactly once), whatever calls
\* failed and were retried on the way.
C2_EachPageMergedOnce ==
    \A j \in DOMAIN jobs :
        (jobs[j].done /\ ~overlapped[j]) =>
            \A v \in Variants :
                QtySold(jobs[j].salesByVariant, v)
                    = OrdersQty(Window(jobs[j].sinceISO), v)

\* C3: done is terminal: once the persisted status of a job is "done", no later
\* write changes its status, done flag, cursor, processedOrders or accumulator.
C3_DoneIsTerminal ==
    [][\A j \in DOMAIN jobs \cap DOMAIN jobs' :
          jobs[j].status = "done" =>
              /\ jobs'[j].status = jobs[j].status
              /\ jobs'[j].done = jobs[j].done
              /\ jobs'[j].cursor = jobs[j].cursor
              /\ jobs'[j].processedOrders = jobs[j].processedOrders
              /\ jobs'[j].salesByVariant = jobs[j].salesByVariant]_vars

\* C4: the persisted processedOrders of a job never decreases.
C4_ProcessedNeverDecreases ==
    [][\A j \in DOMAIN jobs \cap DOMAIN jobs' :
          jobs'[j].processedOrders >= jobs[j].processedOrders]_vars

\* C5: the key set of the persisted accumulator of a job only grows.
C5_KeysAppendOnly ==
    [][\A j \in DOMAIN jobs \cap DOMAIN jobs' :
          DOMAIN jobs[j].salesByVariant \subseteq DOMAIN jobs'[j].salesByVariant]_vars

\* A reportContinue request about to read a row of its shop that is done.
AtDoneRead(r) ==
    /\ req[r].pc = "read"
    /\ req[r].intent = "reportContinue"
    /\ req[r].runId \in DOMAIN jobs
    /\ jobs[req[r].runId].shop = req[r].shop
    /\ jobs[req[r].runId].status = "done"

\* C6 as stated: a reportContinue on a job that is already done answers without
\* any upstream (GraphQL) call.
C6_DoneContinueNoUpstreamCall ==
    (lastResp.kind = "report" /\ lastResp.intent = "reportContinue"
        /\ lastResp.sawDone)
        => lastResp.fetches + lastResp.variantQueries = 0

\* C6 amended: a reportContinue on a job that is already done writes nothing,
\* issues no orders query, and answers done with the processedOrders it read
\* from the row (it does run the variant scan to assemble the rows).
C6_DoneContinueNoScanNoWrite ==
    [][\A r \in Reqs :
          /\ (AtDoneRead(r) /\ req'[r] # req[r] /\ failures' = failures) =>
                /\ jobs' = jobs
                /\ req'[r].pc = "variants"
                /\ req'[r].sawDone
                /\ req'[r].fetches = 0
                /\ req'[r].processedOrders = jobs[req[r].runId].processedOrders
          /\ (req[r].pc = "variants" /\ req[r].sawDone /\ req'[r] # req[r]
                 /\ failures' = failures) =>
                /\ jobs' = jobs
                /\ lastResp'.kind = "report"
                /\ lastResp'.done
                /\ lastResp'.processedOrders = req[r].processedOrders
                /\ lastResp'.fetches = 0]_vars

\* C6 witness: a reportContinue that read a done row has answered done with
\* the row's processedOrders, after one variant scan.
C6_Witness ==
    /\ lastResp.kind = "report"
    /\ lastResp.intent = "reportContinue"
    /\ lastResp.sawDone
    /\ lastResp.done
    /\ lastResp.processedOrders = MaxOrders
    /\ lastResp.variantQueries = 1
    /\ lastResp.runId \in DOMAIN jobs
    /\ jobs[lastResp.runId].status = "done"

\* A request about to fetch a page of a run whose requests never overlapped:
\* the row is running and holds the request's cursor, processedOrders and
\* accumulator, so that a chunk started now fetches the page this fetch asks for.
RowAtLastAdvancedPage ==
    \A r \in Reqs :
        (req[r].pc = "fetch" /\ req[r].runId \in DOMAIN jobs
            /\ ~overlapped[req[r].runId]) =>
            LET run == jobs[req[r].runId]
            IN /\ run.status = "running" /\ ~run.done
               /\ run.cursor = req[r].cursor
               /\ run.processedOrders = req[r].processedOrders
               /\ run.salesByVariant = req[r].salesByVariant
               /\ fetchOrdersChunk(run.sinceISO, ResumeCursor(run))
                    = fetchOrdersChunk(req[r].sinceISO, req[r].cursor)

\* C7: a failed fetch of a page persists nothing and reaches the caller as an
\* error; the row then holds the cursor, processedOrders and accumulator of the
\* last advanced page with status running, so that a retry reads the cursor
\* the failed fetch used and fetches the same page.
C7_FailedFetchPersistsNothing ==
    [][/\ \A r \in Reqs :
            (req[r].pc = "fetch" /\ req'[r] # req[r] /\ failures' # failures) =>
                /\ jobs' = jobs
                /\ req'[r].pc = "idle"
                /\ lastResp'.kind = "error"
                /\ lastResp'.runId = req[r].runId
       /\ RowAtLastAdvancedPage']_vars

\* C7 witness: the fetch of the second page failed; the row is running at the
\* cursor and the count of the first page.
C7_Witness ==
    /\ lastResp.kind = "error"
    /\ lastResp.error = "Could not read orders from GraphQL response."
    /\ lastResp.fetches = 2
    /\ lastResp.runId \in DOMAIN jobs
    /\ ~overlapped[lastResp.runId]
    /\ jobs[lastResp.runId].status = "running"
    /\ jobs[lastResp.runId].cursor = OrdersFirst
    /\ jobs[lastResp.runId].processedOrders = OrdersFirst

\* C8: in every persisted state of a job that is not done, the accumulator and
\* processedOrders hold exactly the pages that precede the persisted cursor.
C8_RowHoldsPagesBeforeCursor ==
    \A j \in DOMAIN jobs :
        ~jobs[j].done =>
            LET passed == Passed(jobs[j].sinceISO, jobs[j].cursor)
            IN /\ jobs[j].processedOrders = Cardinality(passed)
               /\ jobs[j].salesByVariant = mergeSalesMap(EmptySales, EdgesOf(passed))

\* C9: quantities are counted twice only when requests overlapped on the job
\* (or its done update failed): a job on which neither happened never holds
\* more than the window's quantity of a variant.  The witness is the race: two
\* concurrent drivers that read the same cursor and fetched the same page, and
\* a persisted accumulator that counts a page twice.
C9_DoubleCountNeedsOverlap ==
    \A j \in DOMAIN jobs :
        (~overlapped[j] /\ ~markDoneFailed[j]) =>
            \A v \in Variants :
                QtySold(jobs[j].salesByVariant, v)
                    <= OrdersQty(Window(jobs[j].sinceISO), v)

\* C9 witness: two reportContinue requests in their chunks on one job, started
\* from the same cursor, and a persisted quantity twice the window's.
C9_Witness ==
    \E j \in DOMAIN jobs : \E r1, r2 \in Reqs :
        /\ r1 # r2
        /\ InChunk(req[r1]) /\ req[r1].runId = j /\ req[r1].fetches >= 1
        /\ InChunk(req[r2]) /\ req[r2].runId = j /\ req[r2].fetches >= 1
        /\ req[r1].intent = "reportContinue"
        /\ req[r2].intent = "reportContinue"
        /\ req[r1].startCursor = req[r2].startCursor
        /\ ~markDoneFailed[j]
        /\ \E v \in Variants :
              QtySold(jobs[j].salesByVariant, v)
                  = 2 * OrdersQty(Window(jobs[j].sinceISO), v)
              /\ OrdersQty(Window(jobs[j].sinceISO), v) > 0

\* On a run whose requests never overlapped and whose done update never
\* failed, processedOrders is the number of orders the cursor has passed (all
\* of the window, or none yet, when the cursor is null).
ProcessedIsOrdersPassed ==
    \A j \in DOMAIN jobs :
        (~overlapped[j] /\ ~markDoneFailed[j]) =>
            IF jobs[j].cursor # NoCursor
            THEN jobs[j].processedOrders
                    = Cardinality(Passed(jobs[j].sinceISO, jobs[j].cursor))
            ELSE jobs[j].processedOrders
                    \in {0, Cardinality(Window(jobs[j].sinceISO))}

\* C10: on a job whose requests never overlapped, every advanced page adds
\* its record count to the persisted processedOrders, which starts at 0; as
\* long as no done update failed it is the number of orders the cursor passed.
C10_ProcessedIsSumOfPageCounts ==
    [][/\ \A j \in DOMAIN jobs' \ DOMAIN jobs : jobs'[j].processedOrders = 0
       /\ \A r \in Reqs :
             (req[r].pc = "advance" /\ req'[r] # req[r]
                 /\ failures' = failures /\ req[r].runId \in DOMAIN jobs
                 /\ ~overlapped[req[r].runId]) =>
                 jobs'[req[r].runId].processedOrders
                     = jobs[req[r].runId].processedOrders + req[r].edgesLen
       /\ ProcessedIsOrdersPassed']_vars

\* C10 witness: a job without overlap that scanned all orders over several
\* pages and a failed call, and is done with processedOrders = MaxOrders.
C10_Witness ==
    \E j \in DOMAIN jobs :
        /\ ~overlapped[j]
        /\ jobs[j].done
        /\ jobs[j].lookBackDays = MaxOrders
        /\ jobs[j].processedOrders = MaxOrders
        /\ failures > 0

\* A reportContinue request about to read a row of its shop whose status is
\* error (and that is not done).
AtFailedRead(r) ==
    /\ req[r].pc = "read"
    /\ req[r].intent = "reportContinue"
    /\ req[r].runId \in DOMAIN jobs
    /\ jobs[req[r].runId].shop = req[r].shop
    /\ jobs[req[r].runId].status = "error"
    /\ ~jobs[req[r].runId].done

\* C11: a reportContinue on a job whose status is error answers with the stored
\* error message (a default message when none is stored), without an upstream
\* call and without a write; and no step of any request changes a row whose
\* status is error (the cleanup of a reportStart may delete it).
C11_FailedRunIsSticky ==
    [][/\ \A r \in Reqs :
             (AtFailedRead(r) /\ req'[r] # req[r] /\ failures' = failures) =>
                 /\ jobs' = jobs
                 /\ req'[r].pc = "idle"
                 /\ lastResp'.kind = "error"
                 /\ lastResp'.runId = req[r].runId
                 /\ lastResp'.fetches = 0
                 /\ lastResp'.variantQueries = 0
                 /\ lastResp'.error =
                      (IF jobs[req[r].runId].error # ""
                       THEN jobs[req[r].runId].error
                       ELSE "Report run previously failed.")
       /\ \A j \in DOMAIN jobs \cap DOMAIN jobs' :
             (jobs[j].status = "error" /\ ~jobs[j].done) => jobs'[j] = jobs[j]]_vars

\* C11 witness: a reportContinue was answered with the message stored in a row
\* whose status is error, without a fetch, and the row still holds it.
C11_Witness ==
    /\ lastResp.kind = "error"
    /\ lastResp.intent = "reportContinue"
    /\ lastResp.error = "Throttled"
    /\ lastResp.fetches = 0
    /\ lastResp.runId \in DOMAIN jobs
    /\ jobs[lastResp.runId].status = "error"
    /\ jobs[lastResp.runId].error = "Throttled"
    /\ ~jobs[lastResp.runId].done

\* C12: a reportContinue for a run id that names no row, or a row of another
\* shop than the request's, is answered with the not-found error, without an
\* upstream call, and changes no job row.
C12_UnknownOrForeignRunNotFound ==
    [][\A r \in Reqs :
          (/\ req[r].pc = "read"
           /\ req[r].intent = "reportContinue"
           /\ (req[r].runId \notin DOMAIN jobs
                 \/ jobs[req[r].runId].shop # req[r].shop)
           /\ req'[r] # req[r]
           /\ failures' = failures) =>
              /\ jobs' = jobs
              /\ req'[r].pc = "idle"
              /\ lastResp'.kind = "error"
              /\ lastResp'.error = "Report run not found."
              /\ lastResp'.fetches = 0
              /\ lastResp'.variantQueries = 0]_vars

\* C12 witness: the not-found answer to a request of shop s2 for the run of
\* shop s1 that is stored and running.
C12_Witness ==
    /\ lastResp.kind = "error"
    /\ lastResp.intent = "reportContinue"
    /\ lastResp.error = "Report run not found."
    /\ lastResp.runId \in DOMAIN jobs
    /\ jobs[lastResp.runId].shop = "s1"
    /\ jobs[lastResp.runId].status = "running"
    /\ \A j \in DOMAIN jobs : jobs[j].shop = "s1"

\* C13: the rows of a finished report are those that the threshold stored in
\* the job row at reportStart determines, whatever threshold the reportContinue
\* request that returns them carries.
C13_RowsUseStoredThreshold ==
    (/\ lastResp.kind = "report"
     /\ lastResp.intent = "reportContinue"
     /\ lastResp.done
     /\ lastResp.variantQueries = 1
     /\ lastResp.runId \in DOMAIN jobs) =>
        lastResp.rows = ReportRows(jobs[lastResp.runId].salesByVariant,
                                   jobs[lastResp.runId].periodQtySoldLTE)

\* A row of shop S that was created more than 48 hours ago.
OlderThanRetention(run, S) ==
    run.shop = S /\ run.createdAt < now - RetentionDays

\* C14: a reportStart that creates a job runs the cleanup first: the cleanup
\* step deletes every row of its shop older than 48 hours and leaves every
\* other row (other shops, and rows of the shop not older than 48 hours) as it
\* is; the create step follows it, and right after it the shop has no row
\* older than 48 hours.
C14_CleanupBeforeCreate ==
    [][\A r \in Reqs :
          /\ (req[r].pc = "cleanup" /\ req'[r] # req[r] /\ failures' = failures) =>
                /\ req'[r].pc = "create"
                /\ \A j \in DOMAIN jobs' : ~OlderThanRetention(jobs'[j], req[r].shop)
                /\ \A j \in DOMAIN jobs :
                      ~OlderThanRetention(jobs[j], req[r].shop) =>
                          (j \in DOMAIN jobs' /\ jobs'[j] = jobs[j])
                /\ DOMAIN jobs' \subseteq DOMAIN jobs
          /\ (DOMAIN jobs' \ DOMAIN jobs # {} /\ req'[r] # req[r]) =>
                /\ req[r].pc = "create"
                /\ req[r].intent = "reportStart"
                /\ \A j \in DOMAIN jobs' \ DOMAIN jobs : jobs'[j].shop = req[r].shop
                /\ \A j \in DOMAIN jobs' : ~OlderThanRetention(jobs'[j], req[r].shop)
                /\ \A j \in DOMAIN jobs : j \in DOMAIN jobs' /\ jobs'[j] = jobs[j]]_vars

\* C14 witness: a reportStart of shop s1 created a run; the stored run of s1,
\* older than 48 hours, is gone, and the stored run of shop s2, as old, is not.
C14_Witness ==
    /\ 1 \in DOMAIN jobs
    /\ jobs[1].shop = "s1"
    /\ (0 - 1) \notin DOMAIN jobs
    /\ (0 - 2) \in DOMAIN jobs
    /\ jobs[0 - 2].shop = "s2"
    /\ jobs[0 - 2].createdAt < now - RetentionDays

\* The persisted full-sync offset of a shop (0 when the shop has no row yet:
\* the row is created with offset 0).
PersistedOffset(S) ==
    IF S \in DOMAIN syncState THEN syncState[S].fullOffset ELSE 0

\* C15: a full-sync request with mode=start sets the shop's row to offset 0,
\* fullDone false before it fetches any page, and its first fetch uses offset
\* 0; a request with mode=continue fetches its first page at the persisted
\* offset that it read.
C15_StartAtZeroContinueAtOffset ==
    [][\A r \in Reqs :
          LET q == sreq[r]
          IN /\ (q.pc = "reset" /\ sreq'[r] # q /\ syncFailures' = syncFailures) =>
                   /\ q.startFresh /\ q.fetches = 0
                   /\ syncState'[q.shop] = [fullOffset |-> 0, fullDone |-> FALSE]
             /\ (q.pc = "getState" /\ ~q.startFresh /\ sreq'[r].pc = "fetch") =>
                   sreq'[r].offset = PersistedOffset(q.shop)
             /\ (q.pc = "fetch" /\ q.intent = "stockyFullSync" /\ q.fetches = 0
                   /\ sreq'[r] # q /\ q.startFresh) =>
                   q.offset = 0]_vars

\* The full sync of shop S is marked done.
FullDone(S) == S \in DOMAIN syncState /\ syncState[S].fullDone

\* C16: fullDone becomes true only in the step of a full-sync driver whose
\* last fetched page was empty or shorter than the page size; such a page
\* always leads the driver to that step, and a full page never does.
C16_FullDoneOnlyAfterShortPage ==
    [][/\ \A S \in Shops :
             (~FullDone(S) /\ FullDone(S)') =>
                 \E r \in Reqs :
                     /\ sreq[r].pc = "markDone" /\ sreq'[r].pc = "idle"
                     /\ sreq[r].intent = "stockyFullSync" /\ sreq[r].shop = S
                     /\ sreq[r].fetches >= 1
                     /\ sreq[r].ordersLen < StockyLimit
       /\ \A r \in Reqs :
             LET q == sreq[r]
                 stepped == sreq'[r] # q /\ syncFailures' = syncFailures
             IN /\ (q.pc = "fetch" /\ q.intent = "stockyFullSync" /\ stepped) =>
                      (sreq'[r].pc = "markDone" <=> sreq'[r].ordersLen = 0)
                /\ (q.pc = "advance" /\ stepped) =>
                      /\ (sreq'[r].pc = "markDone" <=> q.ordersLen < StockyLimit)
                      /\ (q.ordersLen = StockyLimit =>
                             syncState'[q.shop].fullDone = syncState[q.shop].fullDone)
                /\ (q.pc = "markDone" /\ stepped) =>
                      (q.shop \in DOMAIN syncState' /\ syncState'[q.shop].fullDone)]_vars

\* C16 witness: the list holds exactly one full page; one request fetched it
\* and then an empty page, and only then was the sync marked done.
C16_Witness ==
    /\ poCount = StockyLimit
    /\ syncResp.kind = "result"
    /\ syncResp.intent = "stockyFullSync"
    /\ syncResp.done
    /\ syncResp.fetches = 2
    /\ syncResp.offset = StockyLimit
    /\ FullDone("s1")
    /\ syncState["s1"].fullOffset = StockyLimit

\* C17: the persisted full-sync offset of a shop decreases only in the reset
\* step of a request with mode=start.
C17_OffsetDecreasesOnlyByReset ==
    [][\A S \in DOMAIN syncState \cap DOMAIN syncState' :
          syncState'[S].fullOffset < syncState[S].fullOffset =>
              \E r \in Reqs : /\ sreq[r].pc = "reset"
                              /\ sreq[r].shop = S
                              /\ sreq'[r].pc = "getState"]_vars

\* C18: a quick sync fetches at most one page, at offset 0, and no step of it
\* creates or changes a sync-state row.
C18_QuickSyncKeepsSyncState ==
    [][\A r \in Reqs :
          (sreq[r].intent = "stockyQuickSync" /\ sreq'[r] # sreq[r]) =>
              /\ syncState' = syncState
              /\ sreq'[r].pc \in {"idle", "find", "write"}
              /\ sreq[r].pc = "fetch" => (sreq[r].fetches = 0 /\ sreq[r].offset = 0)
              /\ sreq'[r].fetches <= 1]_vars

\* C18 witness: a quick sync returned after one full page of a longer list and
\* after writing receipts, and the shop has no sync-state row.
C18_Witness ==
    /\ syncResp.kind = "result"
    /\ syncResp.intent = "stockyQuickSync"
    /\ syncResp.fetches = 1
    /\ syncResp.scannedOrders = StockyLimit
    /\ poCount > StockyLimit
    /\ DOMAIN receipts # {}
    /\ DOMAIN syncState = {}

\* C19: every stored receipt row has firstReceivedAt <= lastReceivedAt (and
\* both are timestamps), after any calls of upsertReceiptForSku, interleaved
\* or not.
C19_FirstNotAfterLast ==
    \A k \in DOMAIN receipts :
        /\ receipts[k].firstReceivedAt # NoDate
        /\ receipts[k].firstReceivedAt # BadDate
        /\ receipts[k].firstReceivedAt <= receipts[k].lastReceivedAt

\* C19 witness: the row of sku a was created by one call and widened by
\* another: its two timestamps differ.
C19_Witness ==
    /\ << "s1", "a" >> \in DOMAIN receipts
    /\ receipts[<< "s1", "a" >>].firstReceivedAt = 1
    /\ receipts[<< "s1", "a" >>].lastReceivedAt = 2

\* The call of upsertReceiptForSku that request r is in writes the row it
\* read: no other call wrote the row since its findUnique.
ReadIsCurrent(r) ==
    LET key == << sreq[r].shop, Head(sreq[r].items).sku >>
    IN IF sreq[r].existing.found
       THEN /\ key \in DOMAIN receipts
            /\ receipts[key].firstReceivedAt = sreq[r].existing.firstReceivedAt
            /\ receipts[key].lastReceivedAt = sreq[r].existing.lastReceivedAt
       ELSE key \notin DOMAIN receipts

C21_ReplayWritesNothing ==
    [][\A r \in Reqs :
          LET q == sreq[r]
              key == << q.shop, Head(q.items).sku >>
              dt == Head(q.items).received_at
          IN (/\ q.pc = "find"
              /\ sreq'[r] # q
              /\ syncFailures' = syncFailures
              /\ key \in DOMAIN receipts
              /\ receipts[key].firstReceivedAt <= dt
              /\ dt <= receipts[key].lastReceivedAt) =>
                 /\ receipts' = receipts
                 /\ sreq'[r].pc # "write"
                 /\ (sreq'[r].pc # "idle" => sreq'[r].pageWrites = q.pageWrites)
                 /\ (sreq'[r].pc = "idle" => syncResp'.pageWrites = q.pageWrites)]_vars

\* C21 witness: a quick sync went over the two purchase orders of the first
\* page, whose two timestamps of sku a the table already held, and returned
\* without a receipt write.
C21_Witness ==
    /\ syncResp.kind = "result"
    /\ syncResp.intent = "stockyQuickSync"
    /\ syncResp.scannedOrders = 2
    /\ syncResp.itemsProcessed = 2
    /\ syncResp.pageWrites = 0
    /\ << "s1", "a" >> \in DOMAIN receipts
    /\ receipts[<< "s1", "a" >>].firstReceivedAt = 1
    /\ receipts[<< "s1", "a" >>].lastReceivedAt >= 2

\* The timestamps that the first n purchase orders of the list hold for a sku
\* (in items with a sku and a timestamp that parses).
ValidDates(n, sku) ==
    {PurchaseItemsOf(i)[j].received_at :
        <<i, j>> \in {x \in (1..n) \X (1..3) :
                         /\ x[2] \in DOMAIN PurchaseItemsOf(x[1])
                         /\ PurchaseItemsOf(x[1])[x[2]].sku = sku
                         /\ PurchaseItemsOf(x[1])[x[2]].received_at
                               \notin {NoDate, BadDate}}}

\* The receipt table of shop S after a run without failure over the first n
\* purchase orders, started with an empty table: per sku the earliest and the
\* latest of its timestamps.
RefReceipts(S, n) ==
    [k \in {<< S, u >> : u \in {x \in Skus : ValidDates(n, x) # {}}} |->
        LET dates == ValidDates(n, k[2])
        IN [firstReceivedAt |-> CHOOSE d \in dates : \A e \in dates : d <= e,
            lastReceivedAt |-> CHOOSE d \in dates : \A e \in dates : d >= e]]

\* C22: with the requests of one client, whatever calls failed and were
\* retried: the receipt table is always that of a failure-free run over some
\* prefix of the list that reaches at least to the persisted offset, and when
\* the full sync is marked done it is that of a failure-free run over the
\* whole list.
C22_RetryGivesFailureFreeTable ==
    \A S \in Shops :
        /\ \E n \in PersistedOffset(S)..poCount : receipts = RefReceipts(S, n)
        /\ FullDone(S) => receipts = RefReceipts(S, poCount)

\* C22 witness: a full-sync chunk threw after it had written receipts of a
\* page and before it persisted the page's offset; later requests went over
\* the page again and finished the sync of a list of several pages, and the
\* table is that of a failure-free run.
C22_Witness ==
    /\ partialFailed
    /\ poCount = MaxPOs
    /\ FullDone("s1")
    /\ syncState["s1"].fullOffset = MaxPOs
    /\ receipts = RefReceipts("s1", MaxPOs)
    /\ sreq[1].pc = "idle"

\* The waits after the 429 responses of one call whose retry-after header is
\* 2 every time.
WaitsAfterTwoSeconds == << 2000, 4000, 8000, 16000, 30000, 30000 >>

\* C23: the pass of the fetcher's loop with index k whose response is a 429
\* with a retry-after of s seconds, and that is not the last one, sleeps
\* min(30000, max(1000, 1000 s) * 2^k) ms before the next attempt; with a
\* retry-after of 2 the waits are 2000, 4000, 8000, 16000, 30000, 30000: the
\* first is at least 2000, every later one at least twice the one before it
\* or the cap.
C23_BackoffDoublesUpToCap ==
    [][\A r \in Reqs :
          LET q == sreq[r]
              q2 == sreq'[r]
              k == q.attempt
              two == [finite |-> TRUE, seconds |-> 2]
          IN (q.pc = "fetch" /\ q2.pc = "fetch" /\ q2.attempt = k + 1) =>
                /\ q2.retryAfter.finite =>
                      LET ms == q2.retryAfter.seconds * 1000
                          base == IF ms > 1000 THEN ms ELSE 1000
                          wait == base * 2^k
                      IN q2.waitMs = (IF wait < 30000 THEN wait ELSE 30000)
                /\ q2.retryAfter = two =>
                      /\ q2.waitMs = WaitsAfterTwoSeconds[k + 1]
                      /\ q2.waitMs >= 2000
                /\ (k >= 1 /\ q.retryAfter = two /\ q2.retryAfter = two) =>
                      (q2.waitMs >= 2 * q.waitMs \/ q2.waitMs = 30000)]_vars

\* C23 witness: a call got its sixth 429, with a retry-after of 2, and slept
\* 30000 ms after it.
C23_Witness ==
    /\ sreq[1].pc = "fetch"
    /\ sreq[1].attempt = MAX_RETRIES
    /\ sreq[1].retryAfter = [finite |-> TRUE, seconds |-> 2]
    /\ sreq[1].waitMs = 30000

\* C24: one call of the fetcher issues at most MAX_RETRIES + 1 HTTP requests:
\* a pass of its loop either is a retry, which only raises the attempt index
\* (never beyond MAX_RETRIES) and touches no table, or throws, with the
\* rate-limit error only after the request of index MAX_RETRIES, or
\* returns the page that the list holds at the offset; so the call ends, and
\* the driver goes to mark the sync done only after a page that is empty in
\* the list itself.
C24_RateLimitEndsInError ==
    /\ [][\A r \in Reqs :
            LET q == sreq[r]
                q2 == sreq'[r]
                page == PurchaseOrdersPage(poCount, StockyLimit, q.offset)
            IN /\ q2.attempt <= MAX_RETRIES
               /\ (q.pc = "fetch" /\ q2 # q) =>
                     \/ /\ q2.pc = "fetch"
                        /\ q.attempt < MAX_RETRIES
                        /\ q2.attempt = q.attempt + 1
                        /\ q2.fetches = q.fetches
                        /\ q2.offset = q.offset
                        /\ << syncState, receipts, syncResp >>'
                              = << syncState, receipts, syncResp >>
                     \/ /\ q2.pc = "idle"
                        /\ syncResp'.kind = "error"
                        /\ syncResp'.error = RateLimitedMessage
                              => q.attempt = MAX_RETRIES
                        /\ syncResp'.attempt = q.attempt
                        /\ << syncState, receipts >>' = << syncState, receipts >>
                     \/ /\ q2.pc = "idle"
                        /\ syncResp'.kind = "result"
                        /\ q.intent = "stockyQuickSync"
                        /\ syncResp'.scannedOrders = Len(page)
                        /\ << syncState, receipts >>' = << syncState, receipts >>
                     \/ /\ q2.pc \in {"markDone", "find", "advance"}
                        /\ q2.ordersLen = Len(page)
                        /\ q2.pc = "markDone" <=> Len(page) = 0
                        /\ << syncState, receipts >>' = << syncState, receipts >>]_vars
    /\ \A r \in Reqs : (sreq[r].pc = "fetch") ~> (sreq[r].pc # "fetch")

\* C24 witness: a full-sync request got a 429 for each of its seven HTTP
\* requests and was answered with the rate-limit error; the list is not
\* empty, and the sync is not marked done.
C24_Witness ==
    /\ syncResp.kind = "error"
    /\ syncResp.intent = "stockyFullSync"
    /\ syncResp.error = RateLimitedMessage
    /\ syncResp.attempt + 1 = MAX_RETRIES + 1
    /\ poCount > 0
    /\ "s1" \in DOMAIN syncState
    /\ ~syncState["s1"].fullDone
    /\ sreq[1].pc = "idle"

\* C25: after a fetch of a page the driver holds, as the next cursor, the
\* cursor of the last record of the page when the upstream reports more
\* pages, and null when it does not; a query after that cursor returns the
\* records that follow the page, none of the page and none before it.
C25_NextCursorIsLastOfPage ==
    [][\A r \in Reqs :
          LET q == req[r]
              q2 == req'[r]
              orders == OrdersQuery(q.sinceISO, q.cursor)
              n == Len(orders.edges)
              page == {orders.edges[i].cursor : i \in 1..n}
          IN (q.pc = "fetch" /\ q2.pc = "advance") =>
                /\ q2.hasNextPage = orders.pageInfo.hasNextPage
                /\ q2.edgesLen = n
                /\ ~q2.hasNextPage => q2.cursor = NoCursor
                /\ q2.hasNextPage =>
                      /\ n > 0
                      /\ q2.cursor = orders.edges[n].cursor
                      /\ q2.cursor # NoCursor
                      /\ Remaining(q.sinceISO, q2.cursor)
                            = Remaining(q.sinceISO, q.cursor) \ page
                      /\ Remaining(q.sinceISO, q2.cursor) # {}]_vars

\* C25 witness: a driver fetched the first page, which is full and not the
\* last one, and holds the cursor of its last record.
C25_Witness ==
    \E r \in Reqs :
        /\ req[r].pc = "advance"
        /\ req[r].fetches = 1
        /\ req[r].hasNextPage
        /\ req[r].edgesLen = OrdersFirst
        /\ req[r].cursor = OrderEdge(OrdersFirst).cursor

\* C26: the variant scan of a shop with n active variants returns the first
\* min(n, cap) of them, never more than the cap; truncated is true exactly
\* when it returns as many as the cap, and with truncated false it returns
\* all n; it issues the queries for the pages up to the one that reaches the
\* cap (or the last page) and none after it.  The rows are rows of returned
\* variants only.
C26_VariantScanStopsAtCap ==
    (lastResp.kind = "report" /\ lastResp.variantQueries > 0) =>
        LET n == lastResp.catalog
            count == lastResp.variantsCount
            pagesFor(k) == (k + VariantsFirst - 1) \div VariantsFirst
        IN /\ count <= MAX_VARIANTS
           /\ count = (IF n < MAX_VARIANTS THEN n ELSE MAX_VARIANTS)
           /\ lastResp.truncated <=> (count = MAX_VARIANTS)
           /\ ~lastResp.truncated => count = n
           /\ lastResp.variantQueries
                 = (IF count = 0 THEN 1 ELSE pagesFor(count))
           /\ lastResp.rows \subseteq {VariantIds[i] : i \in 1..count}

\* C26 witness: a shop holds more variants than the cap; the scan returned
\* as many as the cap, with truncated true, and the report has a row of the
\* last of them.
C26_Witness ==
    /\ lastResp.kind = "report"
    /\ lastResp.catalog > MAX_VARIANTS
    /\ lastResp.variantsCount = MAX_VARIANTS
    /\ lastResp.truncated
    /\ lastResp.variantQueries = 2
    /\ VariantIds[MAX_VARIANTS] \in lastResp.rows

\* The values of a set of timestamps that are lowest and highest.
Lowest(S) == CHOOSE x \in S : \A y \in S : x <= y
Highest(S) == CHOOSE x \in S : \A y \in S : x >= y

\* C29: the map after a page is merged equals the reference fold of the page
\* into the map before: a variant with line items on the page has its quantity
\* raised by the sum of their quantities, and its first/last dates are the
\* lowest/highest of the dates of the page's orders selling it and of the date
\* the map held; a line item without a variant adds no entry; the entries of
\* variants with no line item on the page are as before.
C29_MergeIsReferenceFold ==
    [][\A r \in Reqs :
         (req[r].pc = "fetch" /\ req'[r].pc = "advance") =>
            LET old == req[r].salesByVariant
                new == req'[r].salesByVariant
                page == OrdersQuery(req[r].sinceISO, req[r].cursor).edges
                onPage == {page[k].cursor : k \in 1..Len(page)}
                selling(v) == {i \in onPage : ItemsQty(LineItemsOf(i), v) > 0}
            IN /\ DOMAIN new \subseteq Variants
               /\ \A v \in Variants :
                     IF selling(v) = {}
                     THEN /\ v \in DOMAIN new <=> v \in DOMAIN old
                          /\ v \in DOMAIN old => new[v] = old[v]
                     ELSE LET dates == {OrderEdge(i).createdAt : i \in selling(v)}
                          IN /\ v \in DOMAIN new
                             /\ new[v].qtySold
                                   = QtySold(old, v) + OrdersQty(onPage, v)
                             /\ new[v].firstSoldDate
                                   = Lowest(dates \cup
                                        (IF v \in DOMAIN old
                                         THEN {old[v].firstSoldDate} ELSE {}))
                             /\ new[v].lastSoldDate
                                   = Highest(dates \cup
                                        (IF v \in DOMAIN old
                                         THEN {old[v].lastSoldDate} ELSE {}))
     ]_vars

\* C29 witness: a second page was merged into the map of the first: v1, sold
\* on both, holds both quantities and spans both dates; v2, not on the second
\* page, is as the first page left it; the item without a variant has no
\* entry.
C29_Witness ==
    \E r \in Reqs :
        /\ req[r].pc = "advance"
        /\ req[r].fetches = 2
        /\ DOMAIN req[r].salesByVariant = {"v1", "v2", "v3"}
        /\ req[r].salesByVariant["v1"]
             = [qtySold |-> 3, firstSoldDate |-> 1, lastSoldDate |-> 3]
        /\ req[r].salesByVariant["v2"]
             = [qtySold |-> 2, firstSoldDate |-> 2, lastSoldDate |-> 2]

\* C27: a reportStart with periodQtySoldLTE < 0 or lookBackDays <= 0 is
\* answered with the invalid-input error and HTTP status 400, and it has no
\* effect: no row is created or deleted, and no upstream call is made.
C27_InvalidStartIs400WithoutEffect ==
    [][(lastResp.kind = "none" /\ lastResp'.kind = "error"
          /\ lastResp'.error = "Invalid input values.") =>
            /\ lastResp'.intent = "reportStart"
            /\ lastResp'.status = 400
            /\ jobs' = jobs
            /\ nextId' = nextId
            /\ lastResp'.fetches = 0
            /\ lastResp'.variantQueries = 0
     ]_vars

\* The error bodies that the action returns by itself, not from its catch.
InvalidInputErrors == {"Invalid input values."}
UnsetConfigurationErrors == {"STOCKY_API_KEY is not set."}

\* The status a response must carry: 400 for invalid input and for nothing
\* else, 500 for unset configuration and for nothing else, and 200 for an
\* error that the catch returned.
StatusFollowsCause(kind, error, status) ==
    kind # "none" =>
        /\ status = 400 <=> (kind = "error" /\ error \in InvalidInputErrors)
        /\ status = 500 <=> (kind = "error" /\ error \in UnsetConfigurationErrors)
        /\ (kind = "error"
              /\ error \notin InvalidInputErrors \cup UnsetConfigurationErrors)
             => status = 200

\* C28: an exception that the action's catch caught is answered with the
\* body {error: message} and HTTP status 200; invalid input, and only it, is
\* answered with 400; unset configuration, and only it, with 500.
C28_StatusFollowsCause ==
    /\ StatusFollowsCause(lastResp.kind, lastResp.error, lastResp.status)
    /\ StatusFollowsCause(syncResp.kind, syncResp.error, syncResp.status)

\* C30: no request of a session of shop A reads, advances, deletes or
\* creates a job row, a sync state or a receipt row of another shop, whatever
\* `shop` parameter its URL carries: rows of other shops are as before after
\* every step, no row of another shop appears, and no request in flight and
\* no response is about a row of another shop.
C30_OnlyRowsOfTheSessionsShop ==
    [][/\ \A j \in DOMAIN jobs :
             jobs[j].shop # SessionShop =>
                 j \in DOMAIN jobs' /\ jobs'[j] = jobs[j]
       /\ \A j \in DOMAIN jobs' \ DOMAIN jobs : jobs'[j].shop = SessionShop
       /\ \A x \in DOMAIN syncState' :
             x # SessionShop => x \in DOMAIN syncState /\ syncState'[x] = syncState[x]
       /\ \A key \in DOMAIN receipts' :
             key[1] # SessionShop =>
                 key \in DOMAIN receipts /\ receipts'[key] = receipts[key]
       /\ \A r \in Reqs :
             /\ (InChunk(req'[r]) \/ req'[r].pc = "variants")
                  => jobs[req'[r].runId].shop = SessionShop
             /\ sreq'[r].pc # "idle" => sreq'[r].shop = SessionShop
     ]_vars

\* C31: in the iteration-capped driver, an invocation on a running job
\* fetches at least one page and at most MAX_LOOPS pages; after every fetch
\* that succeeds it persists the cursor and the count of that page, once,
\* before anything else; and it never fetches after a page that reports no
\* more data.
C31_CappedChunkFetchesOneToMaxLoops ==
    [][/\ \A r \in Reqs :
             LET q == req[r]
                 q2 == req'[r]
             IN /\ (q.pc = "fetch" /\ q2 # q) =>
                       \/ q2.pc = "idle"
                       \/ q2.pc = "advance" /\ q2.fetches = q.fetches + 1
                                            /\ q2.fetches <= MAX_LOOPS
                /\ (q.pc = "advance" /\ q2 # q /\ q2.pc # "idle") =>
                       /\ jobs'[q.runId].cursor = q.cursor
                       /\ jobs'[q.runId].processedOrders = q.processedOrders
                       /\ q2.pc = "fetch" => (q.hasNextPage /\ q.fetches < MAX_LOOPS)
                       /\ ~q.hasNextPage => q2.pc = "markDone"
                /\ (q.pc # "advance" /\ q.runId \in DOMAIN jobs
                      /\ q.runId \in DOMAIN jobs' /\ q2 # q /\ q.pc # "markDone") =>
                       jobs'[q.runId].cursor = jobs[q.runId].cursor
       /\ (lastResp.kind = "none" /\ lastResp'.kind = "report"
             /\ ~lastResp'.sawDone) =>
               (lastResp'.fetches >= 1 /\ lastResp'.fetches <= MAX_LOOPS)
     ]_vars

\* C31 witness: a reportContinue on a running job returned after MAX_LOOPS
\* fetches with the scan not done: the cap, not the last page, ended it.
C31_Witness ==
    /\ lastResp.kind = "report"
    /\ lastResp.intent = "reportContinue"
    /\ lastResp.fetches = MAX_LOOPS
    /\ ~lastResp.done
    /\ lastResp.processedOrders = MAX_LOOPS * OrdersFirstCapped

\* C34: a full-sync request with mode=continue that finds fullDone = true
\* returns done at once, with the stored offset, no page fetched and nothing
\* scanned, and its step changes no sync state and no receipt row; a
\* full-sync request goes on to fetch only when the state it read was not
\* done, and fullDone becomes false again only by the reset of a mode=start
\* request.
C34_DoneSyncContinueIsNoOp ==
    [][/\ \A r \in Reqs :
             LET q == sreq[r]
                 done == q.shop \in DOMAIN syncState /\ syncState[q.shop].fullDone
             IN /\ (q.pc = "getState" /\ ~q.startFresh /\ done /\ sreq'[r] # q) =>
                       /\ sreq'[r].pc = "idle"
                       /\ syncState' = syncState
                       /\ receipts' = receipts
                       /\ syncResp'.kind = "result" =>
                             /\ syncResp'.done
                             /\ syncResp'.offset = syncState[q.shop].fullOffset
                             /\ syncResp'.fetches = 0
                             /\ syncResp'.scannedOrders = 0
                             /\ syncResp'.itemsProcessed = 0
                /\ (q.pc = "getState" /\ sreq'[r].pc = "fetch") => ~done
       /\ \A x \in DOMAIN syncState :
             (syncState[x].fullDone /\ ~syncState'[x].fullDone) =>
                \E r \in Reqs : /\ sreq[r].pc = "reset"
                                 /\ sreq[r].startFresh
                                 /\ sreq[r].shop = x
                                 /\ sreq'[r].pc = "getState"
     ]_vars

\* C34 witness: a mode=continue request was answered done without a fetch,
\* with the offset of a sync that had scanned all purchase orders.
C34_Witness ==
    /\ syncResp.kind = "result"
    /\ syncResp.intent = "stockyFullSync"
    /\ ~syncResp.startFresh
    /\ syncResp.done
    /\ syncResp.fetches = 0
    /\ poCount > 0
    /\ syncResp.offset = poCount
    /\ "s1" \in DOMAIN syncState /\ syncState["s1"].fullDone

\* C35: every job row has status "running" or "done" and no error message,
\* whatever calls failed before; no request is answered from the branch of
\* continueReportRun that throws for a row whose status is "error".
C35_NoRowEverFailed ==
    /\ \A j \in DOMAIN jobs :
          /\ jobs[j].status \in {"running", "done"}
          /\ jobs[j].error = ""
          /\ ~IsFailed(jobs[j])
    /\ lastResp.kind = "error" =>
          lastResp.error \in {"Invalid input values.",
                              "Report run not found.",
                              "Record to update not found.",
                              "Could not read orders from GraphQL response.",
                              "Could not read productVariants from GraphQL response.",
                              "Can't reach database server."}

\* C35 witness: a fetch of a chunk failed and the request was answered with
\* the error, and the row of its job is still a running row without an error
\* message.
C35_Witness ==
    /\ lastResp.kind = "error"
    /\ lastResp.error = "Could not read orders from GraphQL response."
    /\ lastResp.runId \in DOMAIN jobs
    /\ jobs[lastResp.runId].status = "running"
    /\ jobs[lastResp.runId].error = ""
    /\ ~jobs[lastResp.runId].done

\* C36: also when upsertReceiptForSku calls for the same (shop, sku)
\* interleave, no call fails, and every write leaves the row with the lowest
\* and the highest of the dates applied so far: it holds the date of the
\* call, and it does not raise the first date or lower the last date that
\* the row held.
C36_InterleavedUpsertsKeepMinMax ==
    [][\A r \in Reqs :
         (sreq[r].pc = "write" /\ sreq'[r] # sreq[r]) =>
            LET q == sreq[r]
                key == << q.shop, Head(q.items).sku >>
                dt == Head(q.items).received_at
            IN /\ ~(syncResp'.kind = "error"
                     /\ syncResp'.error
                          = "Unique constraint failed on the fields: (shop, sku)")
               /\ syncResp'.kind # "error" =>
                     /\ key \in DOMAIN receipts'
                     /\ receipts'[key].firstReceivedAt <= dt
                     /\ receipts'[key].lastReceivedAt >= dt
                     /\ key \in DOMAIN receipts =>
                           /\ receipts'[key].firstReceivedAt
                                 <= receipts[key].firstReceivedAt
                           /\ receipts'[key].lastReceivedAt
                                 >= receipts[key].lastReceivedAt
     ]_vars

\* C38: a request of the restocking report issues at most 20 orders
\* queries, whatever the upstream answers for hasNextPage.
C38_RestockFetchesAtMostTwentyPages ==
    restock.fetches <= 20

(* ------------------------- the page's report loop ---------------------- *)

\* The page (MarkdownReport) of one browser tab and its reportFetcher.
\* `state` is reportFetcher.state ("loading", in which the data of the
\* returned action is already set, is taken together with "idle"), `data`
\* is reportFetcher.data, `timer` says that the setTimeout of the report
\* loop's effect is pending, `current` is the request whose response the
\* fetcher waits for, and `aborted` are the requests that a later submit of
\* the fetcher replaced: the browser dropped them, the server still works on
\* them.

\* reportFetcher.data of a response body.
FetcherData(resp) ==
    [kind |-> resp.kind, runId |-> resp.runId, done |-> resp.done]

\* Mutant: the effect also polls after a report that is done.
ReportLoopArms_AlsoWhenDone(data) ==
    data.kind = "report" /\ data.runId # 0

\* The report loop's effect: `if (!r) return; if (r.done) return;
\* if (!runId) return; setTimeout(..., 900)`.  It runs after every render in
\* which reportFetcher.data or reportFetcher changed, whatever the fetcher's
\* state is, and its cleanup clears the timer of the run before.
ReportLoopArms(data) ==
    data.kind = "report" /\ ~data.done /\ data.runId # 0

\* The requests of the fetcher that the server has not answered.
FetcherPending(f) == (IF f.state = "submitting" THEN {f.current} ELSE {}) \cup f.aborted

\* fetcher.submit and the render that follows it: the fetch in flight, if
\* any, is aborted in the browser, the state is "submitting", the data stay,
\* and the effect runs again because reportFetcher is a new object.
FetcherSubmits(f, r, arms) ==
    [f EXCEPT !.state = "submitting", !.current = r,
              !.aborted = FetcherPending(f),
              !.timer = arms]

\* SUBMIT of `<reportFetcher.Form method="post" action={actionUrl}>` with
\* intent reportStart; the button is disabled while the fetcher submits.
PollerFormSubmit(r, periodQtySoldLTE, lookBackDays) ==
    /\ reportFetcher.state # "submitting"
    /\ ReportStartArrives(r, SessionShop, periodQtySoldLTE, lookBackDays)
    /\ reportFetcher' = FetcherSubmits(reportFetcher, r,
                                       ReportLoopArms(reportFetcher.data))
    /\ UNCHANGED << restock, fullSyncFetcher >>

\* The timer of the report loop fires: reportFetcher.submit of a
\* reportContinue with the run id of the data the effect saw.
PollerTimer(r, periodQtySoldLTE) ==
    /\ reportFetcher.timer
    /\ ReportContinueArrives(r, SessionShop, reportFetcher.data.runId,
                             periodQtySoldLTE)
    /\ reportFetcher' = FetcherSubmits(reportFetcher, r,
                                       ReportLoopArms(reportFetcher.data))
    /\ UNCHANGED << restock, fullSyncFetcher >>

\* A response of the server reaches the browser.  That of the fetcher's
\* current request becomes reportFetcher.data and the effect runs on it;
\* that of an aborted request is dropped.
PollerReceive ==
    /\ ~Quiet
    /\ \E r \in FetcherPending(reportFetcher) :
          /\ req[r].pc = "idle"
          /\ reportFetcher' =
                IF reportFetcher.state = "submitting" /\ r = reportFetcher.current
                THEN [reportFetcher EXCEPT
                         !.state = "idle", !.current = 0,
                         !.data = FetcherData(lastResp),
                         !.timer = ReportLoopArms(FetcherData(lastResp))]
                ELSE [reportFetcher EXCEPT !.aborted = @ \ {r}]
    /\ lastResp' = NoResp
    /\ UNCHANGED << syncVars, now, nextId, jobs, req, overlapped,
                    markDoneFailed, failures, restock, fullSyncFetcher >>

\* What the server does for the requests of the page.
PollerServerStep ==
    \E r \in Reqs :
       \/ cleanupOldRuns(r)
       \/ startReportRun(r)
       \/ ReadRun(r)
       \/ FetchOrders(r)
       \/ Advance(r)
       \/ MarkDone(r)
       \/ ReadLatest(r)
       \/ AssembleReport(r)

\* A call of the server (upstream or database) fails.
PollerServerFails ==
    \E r \in Reqs :
       \/ FetchOrdersFail(r)
       \/ AssembleReportFail(r)
       \/ DbFail(r)

PollerTimerFires ==
    \E r \in Reqs, t \in PollerThresholdInputs : PollerTimer(r, t)

NextPoller ==
    \/ \E r \in Reqs, t \in ThresholdInputs, d \in LookBackInputs :
          PollerFormSubmit(r, t, d)
    \/ PollerTimerFires
    \/ PollerReceive
    \/ PollerServerStep
    \/ PollerServerFails

\* One page driving the route, calls may fail.
SpecPoller == Init /\ [][NextPoller]_vars

\* The merchant presses SUBMIT while the page is not polling a job: the data
\* of the fetcher are not a report with done=false.
PollerFormSubmitOneAtATime ==
    /\ ~ReportLoopArms(reportFetcher.data)
    /\ \E r \in Reqs, t \in ThresholdInputs, d \in LookBackInputs :
          PollerFormSubmit(r, t, d)

NextPollerOk ==
    \/ PollerFormSubmitOneAtATime
    \/ PollerTimerFires
    \/ PollerReceive
    \/ PollerServerStep

\* One page driving the route, one report at a time, while no call fails:
\* the server works on every request it received, responses arrive, and a
\* pending timer fires.
SpecPollerFair ==
    /\ Init
    /\ [][NextPollerOk]_vars
    /\ WF_vars(PollerServerStep)
    /\ WF_vars(PollerReceive)
    /\ WF_vars(PollerTimerFires)

\* A step in which request slot r receives a reportContinue.
ContinueSubmitted(r) ==
    /\ req[r].pc = "idle"
    /\ InFlight(req'[r])
    /\ req'[r].intent = "reportContinue"

\* C37: the page never has two reportContinue requests of one job in flight:
\* when it submits one, no other reportContinue of that job is in flight,
\* the response to its previous request has arrived, and that response was a
\* report with done=false (none is submitted after an error response).
C37_OneContinueInFlight ==
    [][\A r \in Reqs :
         ContinueSubmitted(r) =>
            /\ \A r2 \in Reqs \ {r} :
                  ~(/\ InFlight(req[r2])
                    /\ req[r2].intent = "reportContinue"
                    /\ req[r2].runId = req'[r].runId)
            /\ reportFetcher.state = "idle"
            /\ reportFetcher.data.kind = "report"
            /\ ~reportFetcher.data.done
     ]_vars

\* The reportStart request that created the row of job j is in flight.
JobStarted(j) ==
    /\ j \in DOMAIN jobs
    /\ \E r \in Reqs : /\ InFlight(req[r])
                       /\ req[r].intent = "reportStart"
                       /\ req[r].runId = j

\* C32: while no call fails, every job that the page starts reaches status
\* "done" later; and while the data of the page's fetcher are a report with
\* done=true, the page arms no timer and submits no reportContinue.
C32_PollerDrivesJobToDone ==
    /\ \A j \in RunIds :
          JobStarted(j) ~> (j \in DOMAIN jobs /\ jobs[j].status = "done")
    /\ [][(reportFetcher.data.kind = "report" /\ reportFetcher.data.done) =>
             /\ ~reportFetcher.timer
             /\ \A r \in Reqs : ~ContinueSubmitted(r)
        ]_vars

\* C32 witness: a reportContinue of the page's loop is answered with
\* done=true for a job whose row has status "done", after the reportStart of
\* that job was answered with done=false.
C32_Witness ==
    /\ lastResp.kind = "report"
    /\ lastResp.intent = "reportContinue"
    /\ lastResp.done
    /\ reportFetcher.state = "submitting"
    /\ reportFetcher.data.kind = "report"
    /\ ~reportFetcher.data.done
    /\ reportFetcher.data.runId = lastResp.runId
    /\ lastResp.runId \in DOMAIN jobs
    /\ jobs[lastResp.runId].status = "done"

(* ------------------------ the page's full-sync loop -------------------- *)

\* Purchase orders of the third-party list that the page's full sync scans.
PollerPOs == 5

\* fullSyncFetcher.data of a response body (`error`, or `fullSync`).
SyncFetcherData(resp) ==
    [kind |-> resp.kind, runId |-> 0, done |-> resp.done]

\* The full-sync loop's effect: `if (!d) return; if (d.done) return;
\* setTimeout(..., delay)`.  Like the report loop's effect it depends on the
\* fetcher itself and does not look at the fetcher's state.
FullSyncLoopArms(data) ==
    data.kind = "result" /\ ~data.done

\* `fullSyncBusy`: isFullSyncRunning (set by the click, cleared by a done or
\* error response) or a submitting fetcher.
FullSyncBusy(f) ==
    f.state = "submitting" \/ FullSyncLoopArms(f.data)

\* The button of `<fullSyncFetcher.Form>`: intent stockyFullSync, mode start;
\* it is disabled while fullSyncBusy.  STOCKY_API_KEY is set.
SyncPollerFormSubmit(r) ==
    /\ ~FullSyncBusy(fullSyncFetcher)
    /\ FullSyncArrives(r, SessionShop, "key", "start")
    /\ fullSyncFetcher' = FetcherSubmits(fullSyncFetcher, r,
                                         FullSyncLoopArms(fullSyncFetcher.data))
    /\ UNCHANGED << restock, reportFetcher >>

\* The timer of the full-sync loop fires: fullSyncFetcher.submit with mode
\* continue.
SyncPollerTimer(r) ==
    /\ fullSyncFetcher.timer
    /\ FullSyncArrives(r, SessionShop, "key", "continue")
    /\ fullSyncFetcher' = FetcherSubmits(fullSyncFetcher, r,
                                         FullSyncLoopArms(fullSyncFetcher.data))
    /\ UNCHANGED << restock, reportFetcher >>

\* A response of a full-sync request reaches the browser: that of the
\* fetcher's current request becomes fullSyncFetcher.data and the effect runs
\* on it, that of an aborted request is dropped.
SyncPollerReceive ==
    /\ ~SyncQuiet
    /\ \E r \in FetcherPending(fullSyncFetcher) :
          /\ sreq[r].pc = "idle"
          /\ fullSyncFetcher' =
                IF fullSyncFetcher.state = "submitting"
                   /\ r = fullSyncFetcher.current
                THEN [fullSyncFetcher EXCEPT
                         !.state = "idle", !.current = 0,
                         !.data = SyncFetcherData(syncResp),
                         !.timer = FullSyncLoopArms(SyncFetcherData(syncResp))]
                ELSE [fullSyncFetcher EXCEPT !.aborted = @ \ {r}]
    /\ syncResp' = NoSyncResp
    /\ UNCHANGED << syncState, receipts, sreq, syncFailures, poCount,
                    partialFailed, reportVars, restock, reportFetcher >>

\* What the server does for the full-sync requests of the page while every
\* call succeeds.
SyncPollerServerStep ==
    \E r \in Reqs :
       \/ resetFullSync(r)
       \/ getOrCreateSyncState(r)
       \/ FetchPage(r)
       \/ FindReceipt(r)
       \/ WriteReceipt(r)
       \/ AdvanceOffset(r)
       \/ MarkFullDone(r)

SyncPollerTimerFires == \E r \in Reqs : SyncPollerTimer(r)

\* The merchant starts the first full sync of the shop (one mode=start).
SyncPollerFormSubmitOnce ==
    /\ SessionShop \notin DOMAIN syncState
    /\ \E r \in Reqs : SyncPollerFormSubmit(r)

NextSyncPoller ==
    \/ SyncPollerFormSubmitOnce
    \/ SyncPollerTimerFires
    \/ SyncPollerReceive
    \/ SyncPollerServerStep

\* The third-party list holds up to PollerPOs purchase orders.
InitSyncPoller ==
    /\ InitReport
    /\ InitSyncTables
    /\ InitPage
    /\ poCount \in 0..PollerPOs

\* One page running one full sync while no call of the third party or of the
\* database fails for a cause outside the program: the server works on every
\* request it received, responses arrive, and a pending timer fires.
SpecSyncPollerFair ==
    /\ InitSyncPoller
    /\ [][NextSyncPoller]_vars
    /\ WF_vars(SyncPollerServerStep)
    /\ WF_vars(SyncPollerReceive)
    /\ WF_vars(SyncPollerTimerFires)

\* The mode=start request of a full sync is in flight.
FullSyncStarted ==
    \E r \in Reqs : sreq[r].pc # "idle" /\ sreq[r].startFresh

\* C33: while no call fails, a full sync that the page starts sets
\* fullDone=true later, and every step that sets fullDone=true leaves the
\* persisted offset at the number of purchase orders of the list, which have
\* all been fetched since the reset.
C33_FullSyncEndsWithOffsetOfAllFetched ==
    /\ FullSyncStarted
          ~> (SessionShop \in DOMAIN syncState /\ syncState[SessionShop].fullDone)
    /\ [][\A r \in Reqs :
            (sreq[r].pc = "markDone" /\ sreq'[r] # sreq[r]) =>
               /\ syncState'[SessionShop].fullDone
               /\ syncState'[SessionShop].fullOffset = poCount
        ]_vars

====
